---- MODULE Spec2Model ----
(***************************************************************************)
(* ClearComms audio session manager (src-tauri/src/audio_management).      *)
(*                                                                         *)
(* The live Windows mixer is the environment: the active render devices,   *)
(* each with a collection of audio sessions.  Index 0 of every collection  *)
(* is the system session (process id 0); behind it come the streams of    *)
(* the application processes 1..MaxPid, at most one per process and        *)
(* device, which open and close at any time.  The program is the singleton *)
(* AUDIO_MANAGER with its session cache and the commands that run under    *)
(* its lock.  Every COM call of a command may fail; the calls that fail    *)
(* in one command are an input of that command.                            *)
(*                                                                         *)
(* A command is one step; it leaves in `last` what the caller sees of it   *)
(* (the arguments, the result, the list returned) with the mixer and the   *)
(* cache it started from, and Return hands the result to the caller        *)
(* before the next step.                                                   *)
(*                                                                         *)
(* Strings are modelled by tuples that keep what distinguishes them:       *)
(*   session instance identifier of the stream of process p on device d    *)
(*                                     <<"inst", d, p>>                    *)
(*   format!("session_{}", i)          <<"session_", i>>                   *)
(*   format!("Process {}", pid)        <<"Process", pid>>                  *)
(*   display name given by process pid <<"display", pid>>                  *)
(*   file name of the image of pid     <<"exe", pid>>                      *)
(* Volumes are f32 scalars; the model uses the integers 0..VolumeSteps     *)
(* for 0.0..1.0, and requested volumes range below and above that.         *)
(***************************************************************************)
EXTENDS Integers, Sequences, FiniteSets, TLC

\* ------------------------------------------------------------------ bounds
\* Active render endpoints of the machine.
NumDevices == 2
\* Application processes that play audio (process ids 1..MaxPid).
MaxPid == 2
\* Number of steps the scalar range 0.0..1.0 is cut into.
VolumeSteps == 1
\* COM calls that fail during one command.
MaxFaults == 1
\* The enumerate counter is capped: get_audio_sessions is not called again
\* once the counter has reached this value (cleanup and initialise reset it).
MaxEnumerateCalls == 2
\* Switches of the default device that are counted between two captures of
\* the stored device id: the default device does not switch again once
\* this many went unseen.
MaxSwitches == 2
NumThreads == 2
MaxPathLen == 4
MaxComInits == 3
WordBits == 10
MaxSessionCount == 4
MaxObserved == 6
MaxAxisSteps == 1

\* const MAX_JOYSTICK_DEVICES: u32 = 16 (hardware_input/mod.rs line 17),
\* scaled down.
MAX_JOYSTICK_DEVICES == 2

\* ------------------------------------------------------- program constants
\* const MAX_SESSION_CACHE_SIZE: usize = 1000, scaled down so that an
\* enumeration can observe more sessions than the cap.
MAX_SESSION_CACHE_SIZE == 2
\* const LOG_INTERVAL: usize = 200
LOG_INTERVAL == 200

Devices == 1..NumDevices
AppPids == 1..MaxPid
\* The streams that may exist, as <<device, process>>: process 1 plays on
\* every device, process 2 on all but the last, and so on.
Streams == {dp \in Devices \X AppPids : dp[1] + dp[2] <= NumDevices + 1}
\* The scalars 0.0 and 1.0.
VOL_ZERO == 0
VOL_ONE == VolumeSteps
\* Volumes a caller may request: below 0.0, inside the range, above 1.0.
RequestedVolumes == (0 - 1)..(VolumeSteps + 1)

\* String::new(), the empty device id; device d has id d.
EmptyDeviceId == 0
Threads == 1..NumThreads
Unlocked == 0
NoThread == 0

VARIABLES
    mixer,           \* [Streams -> stream]: the live mixer
    focus,           \* the attribute the callers vary: "volume" or "mute"
    default_device,  \* the default render endpoint of the OS
    AUDIO_MANAGER,   \* static AUDIO_MANAGER: Mutex<Option<AudioManager>>
    last,            \* the command that has just run, Idle when none
    switches,        \* default device switches since the stored id was captured
    endpoint,        \* [Devices -> endpoint]: master volume and mute of each device
    lock,            \* 0, or the thread that holds the mutex of AUDIO_MANAGER
    pc,              \* [Threads -> position]: where each calling thread is in its command
    handles,         \* the number of process handles the program holds open
    resolve,         \* the call of get_process_name in progress
    com,             \* [Threads -> count]: CoInitializeEx calls of each thread not yet undone
    owner,           \* the thread whose AudioManager::new built the installed manager, 0 when none
    LAYOUT_MEASUREMENTS, \* static LAYOUT_MEASUREMENTS: the measurements the frontend stored last
    width,           \* the call of calculate_window_width that has just run, NoWidth when none
    failed_poll,     \* history: the pending default device switches a failed poll left unseen
    pass,            \* the cache pass of enumerate_sessions that has just run, NoPass when none
    joysticks,       \* [JoyIds -> joystick]: the game controllers of the OS
    INPUT_MANAGER,   \* static INPUT_MANAGER: Mutex<Option<HidInputManager>>
    input,           \* the input command that has just run, NoInput when none
    reads            \* history: the last successful read of each joystick since the most recent enumerate_devices

vars == <<mixer, focus, default_device, AUDIO_MANAGER, last, switches, endpoint, lock, pc, handles, resolve, com, owner, LAYOUT_MEASUREMENTS, width, failed_poll, pass, joysticks, INPUT_MANAGER, input, reads>>

\* ---------------------------------------------------------------- helpers
Min(a, b) == IF a < b THEN a ELSE b
Max(a, b) == IF a > b THEN a ELSE b

\* Variant of Clamp that passes the requested value on.
NoClamp(v) == v

\* f32::clamp(0.0, 1.0)
Clamp(v) == Min(Max(v, VOL_ZERO), VOL_ONE)

\* A failing call is <<call, d, p>>: the call, the device and the process
\* whose session it is made on (0 where the call has no device or no
\* session).  The calls on the system session are left to succeed: the
\* session is passed over whatever they return.
Fails(flt, call, d, p) == <<call, d, p>> \in flt

\* Option<AudioManager>::None
None == [some |-> FALSE]

\* last_logged_counts: None
NoCounts == <<>>

\* A stream that is not open, and a newly opened one.
Closed == [open |-> FALSE, volume |-> VOL_ONE, is_muted |-> FALSE]
Fresh == [open |-> TRUE, volume |-> VOL_ONE, is_muted |-> FALSE]

\* The session collection of device d, as the process ids of its sessions:
\* the system session, then the open streams.  Index i of the code is
\* position i + 1.
Collection(m, d) ==
    LET open(p) == <<d, p>> \in Streams /\ m[<<d, p>>].open
    IN  <<0>> \o SelectSeq([p \in AppPids |-> p], open)

\* The live sessions of application processes, as <<device, process>>.
LiveStreams(m) == {dp \in Streams : m[dp].open}

\* ------------------------------------------------- get_process_name (81-117)
get_process_name(flt, d, process_id) ==
    IF process_id = 0 THEN <<"System", 0>>
    ELSE IF Fails(flt, "OpenProcess", d, process_id) THEN <<"Process", process_id>>
    ELSE IF Fails(flt, "QueryFullProcessImageNameW", d, process_id)
    THEN <<"Process", process_id>>
    ELSE <<"exe", process_id>>

\* ------------------------------------------- enumerate_sessions (242-382)
\* Variant of DeviceSkipped: a device is read even when its calls fail.
NeverSkipped(flt, d) == FALSE

\* A device whose Item, Activate, GetSessionEnumerator or GetCount fails is
\* skipped (continue); "Activate" stands for the four of them.
DeviceSkipped(flt, d) == Fails(flt, "Activate", d, 0)

\* GetProcessId().unwrap_or(0) on the session of process p.
ReadProcessId(flt, d, p) ==
    IF Fails(flt, "GetProcessId", d, p) THEN 0 ELSE p

\* GetSession or the cast to IAudioSessionControl2 fails: the session is
\* passed over.
SessionSkipped(flt, d, p) == Fails(flt, "GetSession", d, p)

\* Lines 301-310.
ReadSessionId(flt, d, p, i) ==
    IF Fails(flt, "GetSessionInstanceIdentifier", d, p)
    THEN <<"session_", i>>
    ELSE <<"inst", d, p>>

\* Lines 312-321.
ReadDisplayName(flt, d, p, process_id) ==
    IF Fails(flt, "GetDisplayName", d, p)
    THEN <<"Process", process_id>>
    ELSE <<"display", process_id>>

\* Lines 326-338: the record built for the session of process p, at index i
\* of the collection of device d.
BuildSession(m, flt, d, p, i) ==
    LET process_id == ReadProcessId(flt, d, p)
    IN  [session_id   |-> ReadSessionId(flt, d, p, i),
         display_name |-> ReadDisplayName(flt, d, p, process_id),
         process_id   |-> process_id,
         process_name |-> get_process_name(flt, d, process_id),
         volume       |-> IF Fails(flt, "GetMasterVolume", d, p)
                          THEN VOL_ONE ELSE m[<<d, p>>].volume,
         is_muted     |-> IF Fails(flt, "GetMute", d, p)
                          THEN FALSE ELSE m[<<d, p>>].is_muted]

\* Variant of SessionObserved without the test of line 298: a stream is
\* pushed whatever process id was read for it.
ObservedAnyPid(flt, d, p) ==
    /\ p # 0
    /\ ~SessionSkipped(flt, d, p)
    /\ ~Fails(flt, "ISimpleAudioVolume", d, p)

\* Variant of SessionObserved without the `if let Ok(simple_volume)` of line
\* 327: a session is pushed whether or not its volume interface is there.
ObservedWithoutVolume(flt, d, p) ==
    /\ ~SessionSkipped(flt, d, p)
    /\ ReadProcessId(flt, d, p) # 0

\* Lines 288-346: whether the session of process p on device d is pushed.
SessionObserved(flt, d, p) ==
    /\ ~SessionSkipped(flt, d, p)
    /\ ReadProcessId(flt, d, p) # 0
    /\ ~Fails(flt, "ISimpleAudioVolume", d, p)

\* The records pushed for device d, positions k..count of its collection
\* (index i = k - 1).
RECURSIVE EnumerateDevice(_, _, _, _)
EnumerateDevice(m, flt, d, k) ==
    LET coll == Collection(m, d)
    IN  IF k > Len(coll) THEN <<>>
        ELSE LET rest == EnumerateDevice(m, flt, d, k + 1)
             IN  IF SessionObserved(flt, d, coll[k])
                 THEN <<BuildSession(m, flt, d, coll[k], k - 1)>> \o rest
                 ELSE rest

\* Lines 264-347: the vector `sessions` after the device loop, devices
\* d..device_count.
RECURSIVE EnumerateDevices(_, _, _)
EnumerateDevices(m, flt, d) ==
    IF d > NumDevices THEN <<>>
    ELSE (IF DeviceSkipped(flt, d) THEN <<>> ELSE EnumerateDevice(m, flt, d, 1))
         \o EnumerateDevices(m, flt, d + 1)

\* HashMap::insert
MapInsert(map, k, v) ==
    [x \in DOMAIN map \cup {k} |-> IF x = k THEN v ELSE map[x]]

\* HashMap::retain on keys
MapRetain(map, keep) == [x \in DOMAIN map \cap keep |-> map[x]]

\* Line 342 over the whole pass: self.sessions.insert for each pushed record.
RECURSIVE InsertAll(_, _, _)
InsertAll(map, list, k) ==
    IF k > Len(list) THEN map
    ELSE InsertAll(MapInsert(map, list[k].session_id, list[k]), list, k + 1)

\* Line 340 over the whole pass: live_session_ids.
LiveSessionIds(list) == {list[k].session_id : k \in 1..Len(list)}

\* Variant of CacheAfterPass without the retain of line 350.
CacheWithoutRetain(sessions, list) == InsertAll(sessions, list, 1)

\* The cache after the device loop and the retain of line 350.
CacheAfterPass(sessions, list) ==
    MapRetain(InsertAll(sessions, list, 1), LiveSessionIds(list))

\* Variant of PruneChoices without lines 353-359.
NoPrune(map) == {DOMAIN map}

\* Variant of PruneChoices that keeps half of the entries the cache holds.
PruneToHalfOfEntries(map) ==
    IF Cardinality(DOMAIN map) > MAX_SESSION_CACHE_SIZE
    THEN {keep \in SUBSET DOMAIN map :
             Cardinality(keep) = Cardinality(DOMAIN map) \div 2}
    ELSE {DOMAIN map}

\* Lines 353-359: the key sets the cache may keep.  keys() iterates the
\* HashMap in an order the program does not control, and truncate keeps the
\* first MAX_SESSION_CACHE_SIZE / 2 of them.
PruneChoices(map) ==
    IF Cardinality(DOMAIN map) > MAX_SESSION_CACHE_SIZE
    THEN {keep \in SUBSET DOMAIN map :
             Cardinality(keep) = MAX_SESSION_CACHE_SIZE \div 2}
    ELSE {DOMAIN map}

\* Lines 361-378.
LoggedCounts(mgr, calls, active_count, cache_count) ==
    LET counts_changed ==
            IF mgr.last_logged_counts = NoCounts THEN TRUE
            ELSE \/ mgr.last_logged_counts[1] # active_count
                 \/ mgr.last_logged_counts[2] # cache_count
    IN  IF counts_changed \/ calls % LOG_INTERVAL = 0
        THEN <<active_count, cache_count>>
        ELSE mgr.last_logged_counts

\* ---------------------------------------------------------- failing calls
\* The failing calls of one command are an input of the command: at most
\* MaxFaults of the calls the command makes when nothing fails.  (A call the
\* command does not reach, because an earlier one failed, has no effect.)
RECURSIVE SubsetsUpTo(_, _)
SubsetsUpTo(S, k) ==
    IF k = 0 THEN {{}}
    ELSE LET smaller == SubsetsUpTo(S, k - 1)
         IN  smaller \cup {flt \cup {x} : flt \in smaller, x \in S}

AtMostFaults(S) == SubsetsUpTo(S, MaxFaults)

\* get_default_device_id (lines 147-161).
DefaultDeviceCalls ==
    {<<"CoCreateInstance", 0, 0>>, <<"GetDefaultAudioEndpoint", 0, 0>>, <<"GetId", 0, 0>>,
     <<"to_string", 0, 0>>}

\* AudioManager::new (lines 126-133).
NewCalls == {<<"CoInitializeEx", 0, 0>>} \cup DefaultDeviceCalls

\* The calls up to the device loop (lines 245-258 and 396-407).
EndpointCalls ==
    {<<"CoCreateInstance", 0, 0>>, <<"EnumAudioEndpoints", 0, 0>>, <<"GetCount", 0, 0>>}

EndpointsListed(flt) ==
    /\ ~Fails(flt, "CoCreateInstance", 0, 0)
    /\ ~Fails(flt, "EnumAudioEndpoints", 0, 0)
    /\ ~Fails(flt, "GetCount", 0, 0)

\* The calls of enumerate_sessions (lines 245-346) that may fail.  The
\* name lookups (GetDisplayName, OpenProcess, QueryFullProcessImageNameW)
\* are left to succeed.
EnumerateCalls(m) ==
    EndpointCalls
    \cup {<<"Activate", d, 0>> : d \in Devices}
    \cup {<<c, dp[1], dp[2]>> :
            c \in {"GetSession", "GetProcessId", "GetSessionInstanceIdentifier",
                   "ISimpleAudioVolume", "GetMasterVolume", "GetMute"},
            dp \in LiveStreams(m)}

\* The calls of a set command on the sessions of target_process_id (lines
\* 396-438 and 470-512); setter is "SetMasterVolume" or "SetMute".
SetCalls(m, target_process_id, setter) ==
    EndpointCalls
    \cup {<<"Activate", d, 0>> : d \in Devices}
    \cup {<<c, dp[1], dp[2]>> :
            c \in {"GetSession", "GetProcessId"}, dp \in LiveStreams(m)}
    \cup {<<c, dp[1], dp[2]>> :
            c \in {"ISimpleAudioVolume", setter},
            dp \in {x \in LiveStreams(m) : x[2] = target_process_id}}

\* ------------------------------------------------------------ the manager
Manager(sessions, current_device_id, enumerate_calls, last_logged_counts) ==
    [some |-> TRUE,
     sessions |-> sessions,
     current_device_id |-> current_device_id,
     enumerate_calls |-> enumerate_calls,
     last_logged_counts |-> last_logged_counts]

\* HashMap::new()
EmptyMap == [x \in {} |-> x]

\* What `last` keeps of a command: its name and arguments, the calls
\* that failed in it, its result (Ok or the error message), the list it
\* returned, and the mixer, the manager, the count of unseen device
\* switches and the endpoints it started from.
Step(op, session_id, volume, muted, faults, result, returned) ==
    [op |-> op, session_id |-> session_id, volume |-> volume, muted |-> muted,
     faults |-> faults, result |-> result, returned |-> returned,
     mixer |-> mixer, manager |-> AUDIO_MANAGER, switches |-> switches,
     endpoint |-> endpoint]

NoId == <<>>

\* No command has run since the last result was handed over.
Idle == [op |-> "idle"]

\* The error of the command wrappers when the Option is None (lines 616-618).
NotInitialised == "Audio manager not initialised. Call init_audio_manager first."

\* The session ids a caller may pass.
SessionIds ==
    {<<"inst", dp[1], dp[2]>> : dp \in Streams}
    \cup {<<"session_", i>> : i \in 0..MaxPid}

\* get_default_device_id (lines 145-169): the id, or the error.
get_default_device_id(flt) ==
    IF Fails(flt, "CoCreateInstance", 0, 0)
    THEN [ok |-> FALSE, err |-> "Failed to create device enumerator"]
    ELSE IF Fails(flt, "GetDefaultAudioEndpoint", 0, 0)
    THEN [ok |-> FALSE, err |-> "Failed to get default audio endpoint"]
    ELSE IF Fails(flt, "GetId", 0, 0)
    THEN [ok |-> FALSE, err |-> "Failed to get device ID"]
    ELSE IF Fails(flt, "to_string", 0, 0)
    THEN [ok |-> FALSE, err |-> "Failed to convert device ID"]
    ELSE [ok |-> TRUE, id |-> default_device]

\* AudioManager::new (lines 122-142).
new(flt) ==
    IF Fails(flt, "CoInitializeEx", 0, 0)
    THEN [ok |-> FALSE, err |-> "Failed to initialize COM"]
    ELSE LET device_id == get_default_device_id(flt)
         IN  IF ~device_id.ok THEN device_id
             ELSE [ok |-> TRUE, manager |-> Manager(EmptyMap, device_id.id, 0, NoCounts)]

\* init_audio_manager (lines 594-607) with failing calls flt.  The manager
\* replaced by the assignment of line 603 is dropped.
InitAudioManager(flt) ==
    LET manager == new(flt)
    IN  /\ AUDIO_MANAGER' = IF manager.ok THEN manager.manager ELSE AUDIO_MANAGER
        /\ last' = Step("init_audio_manager", NoId, 0, FALSE, flt,
                        IF manager.ok THEN "Audio manager initialised successfully"
                        ELSE manager.err, <<>>)
        /\ switches' = IF manager.ok THEN 0 ELSE switches
        /\ UNCHANGED <<mixer, focus, default_device, endpoint, lock, pc, handles, resolve, com, owner, LAYOUT_MEASUREMENTS, width, failed_poll, pass, joysticks, INPUT_MANAGER, input, reads>>

init_audio_manager ==
    /\ last = Idle
    /\ \E flt \in AtMostFaults(NewCalls) : InitAudioManager(flt)

\* AudioManager::enumerate_sessions (lines 242-382): the manager after a call
\* that returns a list; keep is the key set the pruning of 353-359 keeps.
enumerate_sessions(mgr, m, flt, keep) ==
    LET list == EnumerateDevices(m, flt, 1)
        cache == MapRetain(CacheAfterPass(mgr.sessions, list), keep)
        calls == mgr.enumerate_calls + 1
    IN  Manager(cache, mgr.current_device_id, calls,
                LoggedCounts(mgr, calls, Cardinality(LiveSessionIds(list)),
                             Cardinality(DOMAIN cache)))

\* The error enumerate_sessions returns (lines 245-258), "" when it returns
\* a list.
EnumerateError(flt) ==
    IF Fails(flt, "CoCreateInstance", 0, 0) THEN "Failed to create device enumerator"
    ELSE IF Fails(flt, "EnumAudioEndpoints", 0, 0) THEN "Failed to enumerate audio endpoints"
    ELSE IF Fails(flt, "GetCount", 0, 0) THEN "Failed to get device count"
    ELSE ""

\* Variant of get_audio_sessions whose failed enumeration still counts the
\* call (line 361 moved before the fallible calls).
GetAudioSessionsCountingFailures(flt, keep) ==
    IF ~AUDIO_MANAGER.some
    THEN /\ last' = Step("get_audio_sessions", NoId, 0, FALSE, flt, NotInitialised, <<>>)
         /\ UNCHANGED <<mixer, focus, default_device, AUDIO_MANAGER, switches, endpoint, lock, pc, handles, resolve, com, owner, LAYOUT_MEASUREMENTS, width, failed_poll, pass, joysticks, INPUT_MANAGER, input, reads>>
    ELSE IF EnumerateError(flt) # ""
    THEN /\ AUDIO_MANAGER' = [AUDIO_MANAGER EXCEPT !.enumerate_calls = @ + 1]
         /\ last' = Step("get_audio_sessions", NoId, 0, FALSE, flt,
                         EnumerateError(flt), <<>>)
         /\ UNCHANGED <<mixer, focus, default_device, switches, endpoint, lock, pc, handles, resolve, com, owner, LAYOUT_MEASUREMENTS, width, failed_poll, pass, joysticks, INPUT_MANAGER, input, reads>>
    ELSE /\ AUDIO_MANAGER' = enumerate_sessions(AUDIO_MANAGER, mixer, flt, keep)
         /\ last' = Step("get_audio_sessions", NoId, 0, FALSE, flt, "Ok",
                         EnumerateDevices(mixer, flt, 1))
         /\ UNCHANGED <<mixer, focus, default_device, switches, endpoint, lock, pc, handles, resolve, com, owner, LAYOUT_MEASUREMENTS, width, failed_poll, pass, joysticks, INPUT_MANAGER, input, reads>>

\* get_audio_sessions (lines 611-621) with failing calls flt and pruning
\* choice keep.
GetAudioSessions(flt, keep) ==
    IF ~AUDIO_MANAGER.some
    THEN /\ last' = Step("get_audio_sessions", NoId, 0, FALSE, flt, NotInitialised, <<>>)
         /\ UNCHANGED <<mixer, focus, default_device, AUDIO_MANAGER, switches, endpoint, lock, pc, handles, resolve, com, owner, LAYOUT_MEASUREMENTS, width, failed_poll, pass, joysticks, INPUT_MANAGER, input, reads>>
    ELSE IF EnumerateError(flt) # ""
    THEN /\ last' = Step("get_audio_sessions", NoId, 0, FALSE, flt,
                         EnumerateError(flt), <<>>)
         /\ UNCHANGED <<mixer, focus, default_device, AUDIO_MANAGER, switches, endpoint, lock, pc, handles, resolve, com, owner, LAYOUT_MEASUREMENTS, width, failed_poll, pass, joysticks, INPUT_MANAGER, input, reads>>
    ELSE /\ AUDIO_MANAGER' = enumerate_sessions(AUDIO_MANAGER, mixer, flt, keep)
         /\ last' = Step("get_audio_sessions", NoId, 0, FALSE, flt, "Ok",
                         EnumerateDevices(mixer, flt, 1))
         /\ UNCHANGED <<mixer, focus, default_device, switches, endpoint, lock, pc, handles, resolve, com, owner, LAYOUT_MEASUREMENTS, width, failed_poll, pass, joysticks, INPUT_MANAGER, input, reads>>

\* The pruning choices of a call with failing calls flt.
KeepChoices(flt) ==
    IF AUDIO_MANAGER.some /\ EnumerateError(flt) = ""
    THEN PruneChoices(CacheAfterPass(AUDIO_MANAGER.sessions,
                                     EnumerateDevices(mixer, flt, 1)))
    ELSE {{}}

get_audio_sessions ==
    /\ last = Idle
    /\ AUDIO_MANAGER.some => AUDIO_MANAGER.enumerate_calls < MaxEnumerateCalls
    /\ \E flt \in (IF AUDIO_MANAGER.some THEN AtMostFaults(EnumerateCalls(mixer))
                   ELSE {{}}) :
          \E keep \in KeepChoices(flt) : GetAudioSessions(flt, keep)

\* The calls of GetSessionInstanceIdentifier (line 301) on the live streams.
IdentifierCalls(m) ==
    {<<"GetSessionInstanceIdentifier", dp[1], dp[2]>> : dp \in LiveStreams(m)}

\* get_audio_sessions in which any of the instance identifiers cannot be
\* obtained.
get_audio_sessions_unidentified ==
    /\ last = Idle
    /\ AUDIO_MANAGER.some => AUDIO_MANAGER.enumerate_calls < MaxEnumerateCalls
    /\ \E flt \in (IF AUDIO_MANAGER.some THEN SUBSET IdentifierCalls(mixer)
                   ELSE {{}}) :
          \E keep \in KeepChoices(flt) : GetAudioSessions(flt, keep)

\* ------------------------- set_session_volume, set_session_mute (385-532)
\* Lines 429-437 and 503-511: the session of process p on device d is one
\* the loop makes the set call on.
SessionMatched(flt, d, p, target_process_id) ==
    /\ ~SessionSkipped(flt, d, p)
    /\ ReadProcessId(flt, d, p) = target_process_id
    /\ ~Fails(flt, "ISimpleAudioVolume", d, p)

\* The device loop runs over the endpoints: the enumerator and the endpoint
\* list were obtained and GetCount().unwrap_or(0) is their number.
SetLoopRuns(flt) == EndpointsListed(flt)

\* Variant of Reached whose device loop stops after the first endpoint.
ReachedOnFirstDevice(m, flt, target_process_id) ==
    IF SetLoopRuns(flt)
    THEN {dp \in LiveStreams(m) :
            /\ dp[1] = 1
            /\ ~DeviceSkipped(flt, dp[1])
            /\ SessionMatched(flt, dp[1], dp[2], target_process_id)}
    ELSE {}

\* Variant of Reached that is driven by the cache: the set call is made on
\* the sessions of the target process that have a cache entry.
ReachedIfCached(m, flt, target_process_id) ==
    IF SetLoopRuns(flt)
    THEN {dp \in LiveStreams(m) :
            /\ ~DeviceSkipped(flt, dp[1])
            /\ SessionMatched(flt, dp[1], dp[2], target_process_id)
            /\ <<"inst", dp[1], dp[2]>> \in DOMAIN AUDIO_MANAGER.sessions}
    ELSE {}

\* The live streams the loop makes the set call on.
Reached(m, flt, target_process_id) ==
    IF SetLoopRuns(flt)
    THEN {dp \in LiveStreams(m) :
            /\ ~DeviceSkipped(flt, dp[1])
            /\ SessionMatched(flt, dp[1], dp[2], target_process_id)}
    ELSE {}

\* Variant of updated_count that counts nothing unless every live stream of
\* the target process was reached.
CountIfAllReached(m, flt, target_process_id, setter) ==
    IF Reached(m, flt, target_process_id)
         = {dp \in LiveStreams(m) : dp[2] = target_process_id}
    THEN Cardinality(Reached(m, flt, target_process_id))
    ELSE 0

\* Lines 438-439 and 512-513: the result of the set call is dropped and the
\* session is counted.
updated_count(m, flt, target_process_id, setter) ==
    Cardinality(Reached(m, flt, target_process_id))

\* Variant of Applied without the process id test of lines 429 and 503.
AppliedToAll(m, flt, target_process_id, setter) ==
    IF SetLoopRuns(flt)
    THEN {dp \in LiveStreams(m) : ~Fails(flt, setter, dp[1], dp[2])}
    ELSE {}

\* The live streams whose value the mixer changed: the set call succeeded.
Applied(m, flt, target_process_id, setter) ==
    {dp \in Reached(m, flt, target_process_id) : ~Fails(flt, setter, dp[1], dp[2])}

\* The error of lines 396-405 and 470-479, "" when the loop is entered.
SetError(flt) ==
    IF Fails(flt, "CoCreateInstance", 0, 0) THEN "Failed to create device enumerator"
    ELSE IF Fails(flt, "EnumAudioEndpoints", 0, 0) THEN "Failed to enumerate audio endpoints"
    ELSE ""

\* Variant of SetResult that reports a command that updated nothing as an
\* unknown session.
SetResultAsNotFound(count) == IF count > 0 THEN "Ok" ELSE "Session not found"

\* Lines 452-456 and 526-530.
SetResult(count) == IF count > 0 THEN "Ok" ELSE "No sessions found for process_id"

SessionNotFound == "Session not found"

\* Lines 389-391 and 463-465: the cache has an entry for session_id.
Found(mgr, session_id) == session_id \in DOMAIN mgr.sessions

\* Variant of NotFoundOutcome that drops the cache.
NotFoundClearsCache(mgr, m) ==
    [result |-> SessionNotFound, mixer |-> m,
     manager |-> [mgr EXCEPT !.sessions = EmptyMap]]

\* Lines 389-391 and 463-465: the early return when there is no entry.
NotFoundOutcome(mgr, m) ==
    [result |-> SessionNotFound, mixer |-> m, manager |-> mgr]

\* Variant of AudioManager::set_session_volume that writes the new volume
\* to the cache entry of every session of the target process.
SetVolumeCachingSiblings(mgr, m, session_id, requested, flt) ==
    LET volume == Clamp(requested)
    IN  IF ~Found(mgr, session_id)
        THEN NotFoundOutcome(mgr, m)
        ELSE IF SetError(flt) # ""
        THEN [result |-> SetError(flt), mixer |-> m, manager |-> mgr]
        ELSE LET target_process_id == mgr.sessions[session_id].process_id
                 applied == Applied(m, flt, target_process_id, "SetMasterVolume")
             IN  [result |-> SetResult(updated_count(m, flt, target_process_id,
                                                     "SetMasterVolume")),
                  mixer |-> [dp \in Streams |->
                                IF dp \in applied
                                THEN [m[dp] EXCEPT !.volume = volume]
                                ELSE m[dp]],
                  manager |-> [mgr EXCEPT !.sessions =
                      [id \in DOMAIN mgr.sessions |->
                          IF mgr.sessions[id].process_id = target_process_id
                          THEN [mgr.sessions[id] EXCEPT !.volume = volume]
                          ELSE mgr.sessions[id]]]]

\* AudioManager::set_session_volume (lines 385-458): result, mixer and cache.
AudioManager_set_session_volume(mgr, m, session_id, requested, flt) ==
    LET volume == Clamp(requested)
    IN  IF ~Found(mgr, session_id)
        THEN NotFoundOutcome(mgr, m)
        ELSE IF SetError(flt) # ""
        THEN [result |-> SetError(flt), mixer |-> m, manager |-> mgr]
        ELSE LET target_process_id == mgr.sessions[session_id].process_id
                 applied == Applied(m, flt, target_process_id, "SetMasterVolume")
             IN  [result |-> SetResult(updated_count(m, flt, target_process_id,
                                                     "SetMasterVolume")),
                  mixer |-> [dp \in Streams |->
                                IF dp \in applied
                                THEN [m[dp] EXCEPT !.volume = volume]
                                ELSE m[dp]],
                  manager |-> [mgr EXCEPT !.sessions[session_id].volume = volume]]

\* Variant of AudioManager::set_session_mute that writes the cache entry
\* only when a session was updated.
SetMuteCachingOnSuccess(mgr, m, session_id, muted, flt) ==
    IF ~Found(mgr, session_id)
    THEN NotFoundOutcome(mgr, m)
    ELSE IF SetError(flt) # ""
    THEN [result |-> SetError(flt), mixer |-> m, manager |-> mgr]
    ELSE LET target_process_id == mgr.sessions[session_id].process_id
             applied == Applied(m, flt, target_process_id, "SetMute")
             count == updated_count(m, flt, target_process_id, "SetMute")
         IN  [result |-> SetResult(count),
              mixer |-> [dp \in Streams |->
                            IF dp \in applied
                            THEN [m[dp] EXCEPT !.is_muted = muted]
                            ELSE m[dp]],
              manager |-> IF count > 0
                          THEN [mgr EXCEPT !.sessions[session_id].is_muted = muted]
                          ELSE mgr]

\* AudioManager::set_session_mute (lines 461-532): result, mixer and cache.
AudioManager_set_session_mute(mgr, m, session_id, muted, flt) ==
    IF ~Found(mgr, session_id)
    THEN NotFoundOutcome(mgr, m)
    ELSE IF SetError(flt) # ""
    THEN [result |-> SetError(flt), mixer |-> m, manager |-> mgr]
    ELSE LET target_process_id == mgr.sessions[session_id].process_id
             applied == Applied(m, flt, target_process_id, "SetMute")
         IN  [result |-> SetResult(updated_count(m, flt, target_process_id, "SetMute")),
              mixer |-> [dp \in Streams |->
                            IF dp \in applied
                            THEN [m[dp] EXCEPT !.is_muted = muted]
                            ELSE m[dp]],
              manager |-> [mgr EXCEPT !.sessions[session_id].is_muted = muted]]

\* The failing calls a set command on session_id may meet: none when it
\* returns before its first call.
SetFaults(session_id, setter) ==
    IF ~AUDIO_MANAGER.some \/ session_id \notin DOMAIN AUDIO_MANAGER.sessions
    THEN {{}}
    ELSE AtMostFaults(SetCalls(mixer, AUDIO_MANAGER.sessions[session_id].process_id,
                               setter))

\* set_session_volume (lines 624-635).
SetSessionVolume(session_id, volume, flt) ==
    IF ~AUDIO_MANAGER.some
    THEN /\ last' = Step("set_session_volume", session_id, volume, FALSE, flt,
                         NotInitialised, <<>>)
         /\ UNCHANGED <<mixer, focus, default_device, AUDIO_MANAGER, switches, endpoint, lock, pc, handles, resolve, com, owner, LAYOUT_MEASUREMENTS, width, failed_poll, pass, joysticks, INPUT_MANAGER, input, reads>>
    ELSE LET r == AudioManager_set_session_volume(AUDIO_MANAGER, mixer,
                                                  session_id, volume, flt)
         IN  /\ mixer' = r.mixer
             /\ AUDIO_MANAGER' = r.manager
             /\ last' = Step("set_session_volume", session_id, volume, FALSE, flt,
                             r.result, <<>>)
             /\ UNCHANGED <<focus, default_device, switches, endpoint, lock, pc, handles, resolve, com, owner, LAYOUT_MEASUREMENTS, width, failed_poll, pass, joysticks, INPUT_MANAGER, input, reads>>

\* set_session_mute (lines 638-649).
SetSessionMute(session_id, muted, flt) ==
    IF ~AUDIO_MANAGER.some
    THEN /\ last' = Step("set_session_mute", session_id, 0, muted, flt,
                         NotInitialised, <<>>)
         /\ UNCHANGED <<mixer, focus, default_device, AUDIO_MANAGER, switches, endpoint, lock, pc, handles, resolve, com, owner, LAYOUT_MEASUREMENTS, width, failed_poll, pass, joysticks, INPUT_MANAGER, input, reads>>
    ELSE LET r == AudioManager_set_session_mute(AUDIO_MANAGER, mixer,
                                                session_id, muted, flt)
         IN  /\ mixer' = r.mixer
             /\ AUDIO_MANAGER' = r.manager
             /\ last' = Step("set_session_mute", session_id, 0, muted, flt,
                             r.result, <<>>)
             /\ UNCHANGED <<focus, default_device, switches, endpoint, lock, pc, handles, resolve, com, owner, LAYOUT_MEASUREMENTS, width, failed_poll, pass, joysticks, INPUT_MANAGER, input, reads>>

\* ------------------------------------------------ check_device_changed
\* Variant of CheckDefaultDeviceChanged that reports a change without
\* storing the new id (line 177 left out).
CheckWithoutStore(flt) ==
    IF ~AUDIO_MANAGER.some
    THEN /\ last' = Step("check_default_device_changed", NoId, 0, FALSE, flt,
                         NotInitialised, <<>>)
         /\ UNCHANGED <<mixer, focus, default_device, AUDIO_MANAGER, switches, endpoint, lock, pc, handles, resolve, com, owner, LAYOUT_MEASUREMENTS, width, pass, joysticks, INPUT_MANAGER, input, reads>>
    ELSE LET new_device_id == get_default_device_id(flt)
         IN  /\ last' = Step("check_default_device_changed", NoId, 0, FALSE, flt,
                             IF ~new_device_id.ok THEN new_device_id.err
                             ELSE IF new_device_id.id # AUDIO_MANAGER.current_device_id
                             THEN "true" ELSE "false", <<>>)
             /\ switches' = IF new_device_id.ok THEN 0 ELSE switches
             /\ UNCHANGED <<mixer, focus, default_device, AUDIO_MANAGER, endpoint, lock, pc, handles, resolve, com, owner, LAYOUT_MEASUREMENTS, width, pass, joysticks, INPUT_MANAGER, input, reads>>

\* Variant of CheckDefaultDeviceChanged whose failed poll empties the stored
\* device id.
CheckForgettingOnFailure(flt) ==
    IF ~AUDIO_MANAGER.some
    THEN /\ last' = Step("check_default_device_changed", NoId, 0, FALSE, flt,
                         NotInitialised, <<>>)
         /\ UNCHANGED <<mixer, focus, default_device, AUDIO_MANAGER, switches, endpoint, lock, pc, handles, resolve, com, owner, LAYOUT_MEASUREMENTS, width, pass, joysticks, INPUT_MANAGER, input, reads>>
    ELSE LET new_device_id == get_default_device_id(flt)
         IN  /\ AUDIO_MANAGER' =
                    IF ~new_device_id.ok
                    THEN [AUDIO_MANAGER EXCEPT !.current_device_id = EmptyDeviceId]
                    ELSE IF new_device_id.id # AUDIO_MANAGER.current_device_id
                    THEN [AUDIO_MANAGER EXCEPT !.current_device_id = new_device_id.id]
                    ELSE AUDIO_MANAGER
             /\ last' = Step("check_default_device_changed", NoId, 0, FALSE, flt,
                             IF ~new_device_id.ok THEN new_device_id.err
                             ELSE IF new_device_id.id # AUDIO_MANAGER.current_device_id
                             THEN "true" ELSE "false", <<>>)
             /\ switches' = IF new_device_id.ok THEN 0 ELSE switches
             /\ UNCHANGED <<mixer, focus, default_device, endpoint, lock, pc, handles, resolve, com, owner, LAYOUT_MEASUREMENTS, width, pass, joysticks, INPUT_MANAGER, input, reads>>

\* AudioManager::check_device_changed (lines 172-182) under
\* check_default_device_changed (lines 653-664).
CheckDefaultDeviceChanged(flt) ==
    IF ~AUDIO_MANAGER.some
    THEN /\ last' = Step("check_default_device_changed", NoId, 0, FALSE, flt,
                         NotInitialised, <<>>)
         /\ UNCHANGED <<mixer, focus, default_device, AUDIO_MANAGER, switches, endpoint, lock, pc, handles, resolve, com, owner, LAYOUT_MEASUREMENTS, width, pass, joysticks, INPUT_MANAGER, input, reads>>
    ELSE LET new_device_id == get_default_device_id(flt)
         IN  /\ AUDIO_MANAGER' =
                    IF new_device_id.ok /\ new_device_id.id # AUDIO_MANAGER.current_device_id
                    THEN [AUDIO_MANAGER EXCEPT !.current_device_id = new_device_id.id]
                    ELSE AUDIO_MANAGER
             /\ last' = Step("check_default_device_changed", NoId, 0, FALSE, flt,
                             IF ~new_device_id.ok THEN new_device_id.err
                             ELSE IF new_device_id.id # AUDIO_MANAGER.current_device_id
                             THEN "true" ELSE "false", <<>>)
             /\ switches' = IF new_device_id.ok THEN 0 ELSE switches
             /\ UNCHANGED <<mixer, focus, default_device, endpoint, lock, pc, handles, resolve, com, owner, LAYOUT_MEASUREMENTS, width, pass, joysticks, INPUT_MANAGER, input, reads>>

check_default_device_changed ==
    /\ last = Idle
    /\ \E flt \in (IF AUDIO_MANAGER.some THEN AtMostFaults(DefaultDeviceCalls)
                   ELSE {{}}) :
          CheckDefaultDeviceChanged(flt)
    /\ UNCHANGED failed_poll

\* No poll has failed since the last one that resolved the default device.
NoFailedPoll == [pending |-> None, seen |-> None]

\* The history of failed polls after a poll with failing calls flt: a failed
\* poll notes the count of device switches it left unseen (the first of a
\* run of failed polls does), a poll that resolves the default device takes
\* the note over as `seen`.
FailedPollAfter(flt) ==
    IF ~AUDIO_MANAGER.some THEN failed_poll
    ELSE IF get_default_device_id(flt).ok
    THEN [pending |-> None, seen |-> failed_poll.pending]
    ELSE [pending |-> IF failed_poll.pending.some THEN failed_poll.pending
                      ELSE [some |-> TRUE, value |-> switches],
          seen |-> None]

\* check_default_device_changed, with the history of failed polls kept.
check_default_device_changed_noting_failures ==
    /\ last = Idle
    /\ \E flt \in (IF AUDIO_MANAGER.some THEN AtMostFaults(DefaultDeviceCalls)
                   ELSE {{}}) :
          /\ CheckDefaultDeviceChanged(flt)
          /\ failed_poll' = FailedPollAfter(flt)

\* --------------------------------------------- system endpoint (184-239)
\* get_endpoint_volume (lines 185-201) and the call made on the interface.
SystemCalls(call) ==
    {<<"CoCreateInstance", 0, 0>>, <<"GetDefaultAudioEndpoint", 0, 0>>,
     <<"ActivateEndpointVolume", 0, 0>>, <<call, 0, 0>>}

\* get_endpoint_volume (lines 185-201): the error, "" when it returns the
\* interface of the default device.
EndpointError(flt) ==
    IF Fails(flt, "CoCreateInstance", 0, 0) THEN "Failed to create device enumerator"
    ELSE IF Fails(flt, "GetDefaultAudioEndpoint", 0, 0)
    THEN "Failed to get default audio endpoint"
    ELSE IF Fails(flt, "ActivateEndpointVolume", 0, 0)
    THEN "Failed to activate endpoint volume"
    ELSE ""

\* get_system_volume (lines 684-694) over AudioManager::get_system_volume
\* (204-210).
GetSystemVolume(flt) ==
    /\ last' = Step("get_system_volume", NoId, 0, FALSE, flt,
                     IF ~AUDIO_MANAGER.some THEN NotInitialised
                     ELSE IF EndpointError(flt) # "" THEN EndpointError(flt)
                     ELSE IF Fails(flt, "GetMasterVolumeLevelScalar", 0, 0)
                     THEN "Failed to get master volume"
                     ELSE "Ok",
                     IF AUDIO_MANAGER.some /\ flt = {}
                     THEN <<endpoint[default_device].volume>> ELSE <<>>)
    /\ UNCHANGED <<mixer, focus, default_device, AUDIO_MANAGER, switches, endpoint, lock, pc, handles, resolve, com, owner, LAYOUT_MEASUREMENTS, width, failed_poll, pass, joysticks, INPUT_MANAGER, input, reads>>

\* get_system_mute (lines 698-708) over AudioManager::get_system_mute
\* (213-220).
GetSystemMute(flt) ==
    /\ last' = Step("get_system_mute", NoId, 0, FALSE, flt,
                     IF ~AUDIO_MANAGER.some THEN NotInitialised
                     ELSE IF EndpointError(flt) # "" THEN EndpointError(flt)
                     ELSE IF Fails(flt, "GetMute", 0, 0)
                     THEN "Failed to get mute state"
                     ELSE "Ok",
                     IF AUDIO_MANAGER.some /\ flt = {}
                     THEN <<endpoint[default_device].is_muted>> ELSE <<>>)
    /\ UNCHANGED <<mixer, focus, default_device, AUDIO_MANAGER, switches, endpoint, lock, pc, handles, resolve, com, owner, LAYOUT_MEASUREMENTS, width, failed_poll, pass, joysticks, INPUT_MANAGER, input, reads>>

\* Variant of AudioManager::set_system_volume that acts on the device whose
\* id the manager has stored, not on the default device of the moment.
SetVolumeOnStoredDevice(requested, flt) ==
    LET volume == Clamp(requested)
    IN  IF EndpointError(flt) # ""
        THEN [result |-> EndpointError(flt), endpoint |-> endpoint]
        ELSE IF Fails(flt, "SetMasterVolumeLevelScalar", 0, 0)
        THEN [result |-> "Failed to set master volume", endpoint |-> endpoint]
        ELSE [result |-> "Ok",
              endpoint |-> [endpoint EXCEPT
                               ![AUDIO_MANAGER.current_device_id].volume = volume]]

\* AudioManager::set_system_volume (lines 223-230): the result and the
\* endpoints after the call.
AudioManager_set_system_volume(requested, flt) ==
    LET volume == Clamp(requested)
    IN  IF EndpointError(flt) # ""
        THEN [result |-> EndpointError(flt), endpoint |-> endpoint]
        ELSE IF Fails(flt, "SetMasterVolumeLevelScalar", 0, 0)
        THEN [result |-> "Failed to set master volume", endpoint |-> endpoint]
        ELSE [result |-> "Ok",
              endpoint |-> [endpoint EXCEPT ![default_device].volume = volume]]

\* AudioManager::set_system_mute (lines 233-239): the result and the
\* endpoints after the call.
AudioManager_set_system_mute(muted, flt) ==
    IF EndpointError(flt) # ""
    THEN [result |-> EndpointError(flt), endpoint |-> endpoint]
    ELSE IF Fails(flt, "SetMute", 0, 0)
    THEN [result |-> "Failed to set mute state", endpoint |-> endpoint]
    ELSE [result |-> "Ok",
          endpoint |-> [endpoint EXCEPT ![default_device].is_muted = muted]]

\* Variant of set_system_volume without the ok_or of lines 717-719: the
\* endpoint call is made whether or not a manager is installed.
SetSystemVolumeUnguarded(volume, flt) ==
    LET r == AudioManager_set_system_volume(volume, flt)
    IN  /\ endpoint' = r.endpoint
        /\ last' = Step("set_system_volume", NoId, volume, FALSE, flt, r.result, <<>>)
        /\ UNCHANGED <<mixer, focus, default_device, AUDIO_MANAGER, switches, lock, pc, handles, resolve, com, owner, LAYOUT_MEASUREMENTS, width, failed_poll, pass, joysticks, INPUT_MANAGER, input, reads>>

\* set_system_volume (lines 712-722).
SetSystemVolume(volume, flt) ==
    LET r == IF AUDIO_MANAGER.some THEN AudioManager_set_system_volume(volume, flt)
             ELSE [result |-> NotInitialised, endpoint |-> endpoint]
    IN  /\ endpoint' = r.endpoint
        /\ last' = Step("set_system_volume", NoId, volume, FALSE, flt, r.result, <<>>)
        /\ UNCHANGED <<mixer, focus, default_device, AUDIO_MANAGER, switches, lock, pc, handles, resolve, com, owner, LAYOUT_MEASUREMENTS, width, failed_poll, pass, joysticks, INPUT_MANAGER, input, reads>>

\* set_system_mute (lines 726-736).
SetSystemMute(muted, flt) ==
    LET r == IF AUDIO_MANAGER.some THEN AudioManager_set_system_mute(muted, flt)
             ELSE [result |-> NotInitialised, endpoint |-> endpoint]
    IN  /\ endpoint' = r.endpoint
        /\ last' = Step("set_system_mute", NoId, 0, muted, flt, r.result, <<>>)
        /\ UNCHANGED <<mixer, focus, default_device, AUDIO_MANAGER, switches, lock, pc, handles, resolve, com, owner, LAYOUT_MEASUREMENTS, width, failed_poll, pass, joysticks, INPUT_MANAGER, input, reads>>

\* The failing calls of a system endpoint command: none when it returns
\* before its first call.
SystemFaults(call) ==
    IF AUDIO_MANAGER.some THEN AtMostFaults(SystemCalls(call)) ELSE {{}}

get_system_volume ==
    /\ last = Idle
    /\ \E flt \in SystemFaults("GetMasterVolumeLevelScalar") : GetSystemVolume(flt)

get_system_mute ==
    /\ last = Idle
    /\ \E flt \in SystemFaults("GetMute") : GetSystemMute(flt)

\* ------------------------------------------------------------- cleanup
\* Variant of cleanup that leaves the call counter as it is (line 566 left
\* out).
CleanupKeepsCounter(mgr) ==
    Manager(EmptyMap, EmptyDeviceId, mgr.enumerate_calls, NoCounts)

\* Variant of cleanup that leaves the stored device id as it is (line 570
\* left out).
CleanupKeepingDeviceId(mgr) ==
    Manager(EmptyMap, mgr.current_device_id, 0, NoCounts)

\* AudioManager::cleanup (lines 557-573).
cleanup(mgr) == Manager(EmptyMap, EmptyDeviceId, 0, NoCounts)

\* Variant of cleanup_audio_manager that fails, as the other commands do,
\* when no manager is installed.
cleanup_requires_manager ==
    /\ last = Idle
    /\ AUDIO_MANAGER' = IF AUDIO_MANAGER.some THEN cleanup(AUDIO_MANAGER) ELSE AUDIO_MANAGER
    /\ last' = Step("cleanup_audio_manager", NoId, 0, FALSE, {},
                     IF AUDIO_MANAGER.some THEN "Audio manager cleaned up successfully"
                     ELSE NotInitialised, <<>>)
    /\ UNCHANGED <<mixer, focus, default_device, switches, endpoint, lock, pc, handles, resolve, com, owner, LAYOUT_MEASUREMENTS, width, failed_poll, pass, joysticks, INPUT_MANAGER, input, reads>>

\* Variant of cleanup_audio_manager that takes the manager out of
\* AUDIO_MANAGER after cleaning it.
cleanup_uninstalling ==
    /\ last = Idle
    /\ AUDIO_MANAGER' = None
    /\ last' = Step("cleanup_audio_manager", NoId, 0, FALSE, {},
                     IF AUDIO_MANAGER.some THEN "Audio manager cleaned up successfully"
                     ELSE "Audio manager not initialised", <<>>)
    /\ UNCHANGED <<mixer, focus, default_device, switches, endpoint, lock, pc, handles, resolve, com, owner, LAYOUT_MEASUREMENTS, width, failed_poll, pass, joysticks, INPUT_MANAGER, input, reads>>

\* cleanup_audio_manager (lines 668-680).
cleanup_audio_manager ==
    /\ last = Idle
    /\ AUDIO_MANAGER' = IF AUDIO_MANAGER.some THEN cleanup(AUDIO_MANAGER) ELSE AUDIO_MANAGER
    /\ last' = Step("cleanup_audio_manager", NoId, 0, FALSE, {},
                     IF AUDIO_MANAGER.some THEN "Audio manager cleaned up successfully"
                     ELSE "Audio manager not initialised", <<>>)
    /\ UNCHANGED <<mixer, focus, default_device, switches, endpoint, lock, pc, handles, resolve, com, owner, LAYOUT_MEASUREMENTS, width, failed_poll, pass, joysticks, INPUT_MANAGER, input, reads>>

\* --------------------------------- the cache pass on its own (340-359)
\* Lines 340-359 as a function of the cache before the pass and of the
\* session ids observed in it, for more observed sessions than the streams
\* of the mixer model allow.  Session ids are 1..MaxObserved.
PassIds == 1..MaxObserved

NoPass == [op |-> "none"]

\* The caches the program can hold before a pass: at most
\* MAX_SESSION_CACHE_SIZE entries, with the volume read in an earlier pass.
CachesBefore ==
    {[id \in keys |-> [session_id |-> id, volume |-> VOL_ZERO]] :
        keys \in {S \in SUBSET PassIds : Cardinality(S) <= MAX_SESSION_CACHE_SIZE}}

\* The records pushed in a pass that observes the sessions of ids, in the
\* order of the device loop.
RECURSIVE Observed(_)
Observed(ids) ==
    IF ids = {} THEN <<>>
    ELSE LET id == CHOOSE x \in ids : \A y \in ids : x <= y
         IN  <<[session_id |-> id, volume |-> VOL_ONE]>> \o Observed(ids \ {id})

\* Lines 340-359 of enumerate_sessions: insert, retain, prune.
CachePass ==
    /\ pass = NoPass
    /\ \E sessions \in CachesBefore, ids \in SUBSET PassIds :
          LET list == Observed(ids)
              cache == CacheAfterPass(sessions, list)
          IN  \E keep \in PruneChoices(cache) :
                  pass' = [op |-> "enumerate_sessions", sessions |-> sessions,
                           list |-> list, cache |-> MapRetain(cache, keep)]
    /\ UNCHANGED <<mixer, focus, default_device, AUDIO_MANAGER, last, switches, endpoint, lock, pc, handles, resolve, com, owner, LAYOUT_MEASUREMENTS, width, failed_poll, joysticks, INPUT_MANAGER, input, reads>>

\* The pass is over.
PassReturn ==
    /\ pass # NoPass
    /\ pass' = NoPass
    /\ UNCHANGED <<mixer, focus, default_device, AUDIO_MANAGER, last, switches, endpoint, lock, pc, handles, resolve, com, owner, LAYOUT_MEASUREMENTS, width, failed_poll, joysticks, INPUT_MANAGER, input, reads>>

\* ------------------------------------------- window width (main.rs 47-232)
\* u32 is scaled to WordBits bits: the values are 0..U32Max.
U32Modulus == 2 ^ WordBits
U32Max == U32Modulus - 1

DEFAULT_CHANNEL_WIDTH == 48
DEFAULT_CHANNEL_GAP == 48
DEFAULT_BASE_WIDTH == 250

\* impl Default for LayoutMeasurements (main.rs 56-64).
LayoutMeasurements_default ==
    [channel_width |-> DEFAULT_CHANNEL_WIDTH,
     channel_gap   |-> DEFAULT_CHANNEL_GAP,
     base_width    |-> DEFAULT_BASE_WIDTH]

\* The measurements the frontend sends: the defaults, zero, and the
\* largest u32.
MeasuredValues ==
    {0, DEFAULT_CHANNEL_WIDTH, DEFAULT_BASE_WIDTH, U32Max}

\* The session counts the frontend sends.
SessionCounts == 0..MaxSessionCount

NoWidth == [op |-> "none"]

\* The outcomes of a u32 `+` or `*` whose exact result is exact: the result
\* when it fits; otherwise a panic in a build with overflow checks and
\* the result modulo 2^32 in a build without them.
Arithmetic(exact) ==
    IF exact <= U32Max
    THEN {[aborted |-> FALSE, value |-> exact]}
    ELSE {[aborted |-> TRUE, value |-> 0],
          [aborted |-> FALSE, value |-> exact % U32Modulus]}

\* calculate_window_width (main.rs 184-198): the outcomes of the call.
\* The increment of line 191 is computed for every session_count above 0.
calculate_window_width(measurements, session_count) ==
    IF session_count = 0
    THEN {[aborted |-> FALSE, value |-> measurements.base_width]}
    ELSE UNION {
        IF increment.aborted THEN {increment}
        ELSE IF session_count = 1
        THEN {[aborted |-> FALSE, value |-> measurements.base_width]}
        ELSE UNION {
            IF product.aborted THEN {product}
            ELSE Arithmetic(measurements.base_width + product.value)
            : product \in Arithmetic(increment.value
                                        * ((session_count - 1) % U32Modulus))}
        : increment \in Arithmetic(measurements.channel_width
                                      + measurements.channel_gap)}

\* update_layout_measurements (main.rs 216-232).
update_layout_measurements ==
    /\ width = NoWidth
    /\ \E channel_width \in MeasuredValues, channel_gap \in MeasuredValues,
          base_width \in MeasuredValues :
          LAYOUT_MEASUREMENTS' = [channel_width |-> channel_width,
                                  channel_gap   |-> channel_gap,
                                  base_width    |-> base_width]
    /\ UNCHANGED <<mixer, focus, default_device, AUDIO_MANAGER, last, switches,
                   endpoint, lock, pc, handles, resolve, com, owner, width, failed_poll, pass, joysticks, INPUT_MANAGER, input, reads>>

\* resize_window_to_content (main.rs 246-249): the call of
\* calculate_window_width(session_count).
resize_window_to_content ==
    /\ width = NoWidth
    /\ \E session_count \in SessionCounts :
          \E outcome \in calculate_window_width(LAYOUT_MEASUREMENTS, session_count) :
              width' = [op |-> "calculate_window_width",
                        session_count |-> session_count,
                        aborted |-> outcome.aborted,
                        value |-> outcome.value]
    /\ UNCHANGED <<mixer, focus, default_device, AUDIO_MANAGER, last, switches,
                   endpoint, lock, pc, handles, resolve, com, owner,
                   LAYOUT_MEASUREMENTS, failed_poll, pass, joysticks, INPUT_MANAGER, input, reads>>

\* The caller has the width.
WidthReturn ==
    /\ width # NoWidth
    /\ width' = NoWidth
    /\ UNCHANGED <<mixer, focus, default_device, AUDIO_MANAGER, last, switches,
                   endpoint, lock, pc, handles, resolve, com, owner,
                   LAYOUT_MEASUREMENTS, failed_poll, pass, joysticks, INPUT_MANAGER, input, reads>>

\* ------------------------------------------------ COM apartments (122-142)
\* Variant of InitOnThread that keeps the manager already installed: the new
\* manager is the one dropped.
InitOnceOnThread(t, flt) ==
    LET manager == new(flt)
        initialised == IF Fails(flt, "CoInitializeEx", 0, 0) THEN com[t] ELSE com[t] + 1
        dropped == IF manager.ok /\ AUDIO_MANAGER.some THEN 1 ELSE 0
    IN  /\ AUDIO_MANAGER' = IF manager.ok /\ ~AUDIO_MANAGER.some
                            THEN manager.manager ELSE AUDIO_MANAGER
        /\ com' = [com EXCEPT ![t] = initialised - dropped]
        /\ owner' = IF manager.ok /\ ~AUDIO_MANAGER.some THEN t ELSE owner
        /\ last' = Step("init_audio_manager", NoId, 0, FALSE, flt,
                        IF manager.ok THEN "Audio manager initialised successfully"
                        ELSE manager.err, <<>>)
        /\ switches' = IF manager.ok THEN 0 ELSE switches
        /\ UNCHANGED <<mixer, focus, default_device, endpoint, lock, pc, handles, resolve, LAYOUT_MEASUREMENTS, width, failed_poll, pass, joysticks, INPUT_MANAGER, input, reads>>

\* init_audio_manager as thread t runs it, with the COM initialisations of
\* the thread counted.  The other specifications do not count them: their
\* commands leave com and owner as they are.
\*   line 126  CoInitializeEx succeeds: one more initialisation of thread t;
\*   line 133  get_default_device_id()? fails: new returns the error, and no
\*             AudioManager exists whose Drop would call CoUninitialize;
\*   line 603  *lock = Some(manager) drops the manager installed before, on
\*             the calling thread: Drop (576-588) calls CoUninitialize.
InitOnThread(t, flt) ==
    LET manager == new(flt)
        initialised == IF Fails(flt, "CoInitializeEx", 0, 0) THEN com[t] ELSE com[t] + 1
        dropped == IF manager.ok /\ AUDIO_MANAGER.some THEN 1 ELSE 0
    IN  /\ AUDIO_MANAGER' = IF manager.ok THEN manager.manager ELSE AUDIO_MANAGER
        /\ com' = [com EXCEPT ![t] = initialised - dropped]
        /\ owner' = IF manager.ok THEN t ELSE owner
        /\ last' = Step("init_audio_manager", NoId, 0, FALSE, flt,
                        IF manager.ok THEN "Audio manager initialised successfully"
                        ELSE manager.err, <<>>)
        /\ switches' = IF manager.ok THEN 0 ELSE switches
        /\ UNCHANGED <<mixer, focus, default_device, endpoint, lock, pc, handles, resolve, LAYOUT_MEASUREMENTS, width, failed_poll, pass, joysticks, INPUT_MANAGER, input, reads>>

init_on_thread ==
    /\ last = Idle
    /\ \E t \in Threads :
          /\ com[t] < MaxComInits
          /\ \E flt \in AtMostFaults(NewCalls) : InitOnThread(t, flt)

\* ------------------------------------- get_process_name, step by step
\* Strings are sequences of characters.
System == <<"S", "y", "s", "t", "e", "m">>

\* u32 Display: the decimal digits of n.
RECURSIVE Decimal(_)
Decimal(n) ==
    LET digit(k) == <<"0", "1", "2", "3", "4", "5", "6", "7", "8", "9">>[k + 1]
    IN  IF n < 10 THEN <<digit(n)>> ELSE Decimal(n \div 10) \o <<digit(n % 10)>>

\* format!("Process {}", process_id), line 116.
Fallback(process_id) ==
    <<"P", "r", "o", "c", "e", "s", "s", " ">> \o Decimal(process_id)

\* The characters of an image path: the separator and two others.
PathChars == {"\\", "a", "b"}

\* The paths QueryFullProcessImageNameW reports with a size above zero: the
\* full path of an executable file, which does not end in a separator.
ImagePaths ==
    {path \in UNION {[1..n -> PathChars] : n \in 1..MaxPathLen} :
        path[Len(path)] # "\\"}

\* str::split('\\'): the segments between the separators, in order; a
\* string without separator is its only segment.
RECURSIVE Split(_, _, _)
Split(path, k, segment) ==
    IF k > Len(path) THEN <<segment>>
    ELSE IF path[k] = "\\" THEN <<segment>> \o Split(path, k + 1, <<>>)
    ELSE Split(path, k + 1, Append(segment, path[k]))

\* Variant of Filename that takes the first segment (next) of the split.
FirstSegment(path) == Split(path, 1, <<>>)[1]

\* Lines 103-108: path.split('\\').next_back(), or the path.
Filename(path) ==
    LET segments == Split(path, 1, <<>>)
    IN  IF Len(segments) > 0 THEN segments[Len(segments)] ELSE path

\* No call of get_process_name is in progress.
NotResolving ==
    [at |-> "ready", process_id |-> 0, query_ok |-> FALSE, path |-> <<>>,
     result |-> <<>>, opened |-> 0, closed |-> 0]

\* Lines 81-84: the call begins; process 0 is "System".
ResolveEnter(process_id) ==
    /\ last = Idle
    /\ resolve.at = "ready"
    /\ resolve' = IF process_id = 0
                  THEN [NotResolving EXCEPT !.at = "returned", !.result = System]
                  ELSE [NotResolving EXCEPT !.at = "open", !.process_id = process_id]
    /\ UNCHANGED <<mixer, focus, default_device, AUDIO_MANAGER, last, switches,
                   endpoint, lock, pc, handles, com, owner, LAYOUT_MEASUREMENTS, width, failed_poll, pass, joysticks, INPUT_MANAGER, input, reads>>

\* Line 86, ProcessHandle::open (55-64): OpenProcess gives a handle, or
\* fails and the call returns the fallback of line 116.
ResolveOpen ==
    /\ resolve.at = "open"
    /\ \E ok \in BOOLEAN :
          IF ok
          THEN /\ handles' = handles + 1
               /\ resolve' = [resolve EXCEPT !.at = "query", !.opened = @ + 1]
          ELSE /\ handles' = handles
               /\ resolve' = [resolve EXCEPT !.at = "returned",
                                             !.result = Fallback(resolve.process_id)]
    /\ UNCHANGED <<mixer, focus, default_device, AUDIO_MANAGER, last, switches,
                   endpoint, lock, pc, com, owner, LAYOUT_MEASUREMENTS, width, failed_poll, pass, joysticks, INPUT_MANAGER, input, reads>>

\* Variant of ResolveQuery whose success path returns without dropping the
\* ProcessHandle.
QueryReturnsHoldingHandle ==
    /\ resolve.at = "query"
    /\ \E ok \in BOOLEAN, path \in ImagePaths \cup {<<>>} :
          /\ ~ok => path = <<>>
          /\ resolve' =
                [resolve EXCEPT
                    !.at = IF ok /\ Len(path) > 0 THEN "returned" ELSE "drop",
                    !.query_ok = ok, !.path = path,
                    !.result = IF ok /\ Len(path) > 0 THEN Filename(path)
                               ELSE Fallback(resolve.process_id)]
    /\ UNCHANGED <<mixer, focus, default_device, AUDIO_MANAGER, last, switches,
                   endpoint, lock, pc, handles, com, owner, LAYOUT_MEASUREMENTS, width, failed_poll, pass, joysticks, INPUT_MANAGER, input, reads>>

\* Lines 88-112: QueryFullProcessImageNameW fails, or reports a path of
\* size characters; with result.is_ok() && size > 0 the value to return is
\* the file name, otherwise the fallback of line 116.  Either way the
\* ProcessHandle goes out of scope next.
ResolveQuery ==
    /\ resolve.at = "query"
    /\ \E ok \in BOOLEAN, path \in ImagePaths \cup {<<>>} :
          /\ ~ok => path = <<>>
          /\ resolve' =
                [resolve EXCEPT
                    !.at = "drop", !.query_ok = ok, !.path = path,
                    !.result = IF ok /\ Len(path) > 0 THEN Filename(path)
                               ELSE Fallback(resolve.process_id)]
    /\ UNCHANGED <<mixer, focus, default_device, AUDIO_MANAGER, last, switches,
                   endpoint, lock, pc, handles, com, owner, LAYOUT_MEASUREMENTS, width, failed_poll, pass, joysticks, INPUT_MANAGER, input, reads>>

\* Drop for ProcessHandle (71-77): CloseHandle, when process_handle leaves
\* its scope at the return of line 105 or at the end of the block (113).
ResolveDrop ==
    /\ resolve.at = "drop"
    /\ handles' = handles - 1
    /\ resolve' = [resolve EXCEPT !.at = "returned", !.closed = @ + 1]
    /\ UNCHANGED <<mixer, focus, default_device, AUDIO_MANAGER, last, switches,
                   endpoint, lock, pc, com, owner, LAYOUT_MEASUREMENTS, width, failed_poll, pass, joysticks, INPUT_MANAGER, input, reads>>

\* The caller (line 324) has the name.
ResolveReturn ==
    /\ resolve.at = "returned"
    /\ resolve' = NotResolving
    /\ UNCHANGED <<mixer, focus, default_device, AUDIO_MANAGER, last, switches,
                   endpoint, lock, pc, handles, com, owner, LAYOUT_MEASUREMENTS, width, failed_poll, pass, joysticks, INPUT_MANAGER, input, reads>>

\* The volumes and mute flags the callers pass: every value of the attribute
\* in focus, the value of a new stream for the other one.
Volumes == IF focus = "volume" THEN RequestedVolumes ELSE {VOL_ONE + 1}
Mutes == IF focus = "mute" THEN BOOLEAN ELSE {FALSE}

\* ------------------------------------------------------- calling threads
\* The commands as the threads of the tauri runtime run them: every command
\* is a sequence of steps of its thread, and AUDIO_MANAGER.lock() (lines
\* 599, 612, 626, 640, 655, 669) blocks while another thread holds the
\* guard.  The guard is dropped when the command returns.  No COM call
\* fails in the steps under the lock.

\* The streams that open and close while the threads run.
ThreadStreams == {dp \in Streams : dp[2] = 1}

\* A thread that runs no command.
Ready == [op |-> "none", at |-> "ready", manager |-> None, list |-> <<>>]

\* The commands of lines 594-680.
ThreadOps ==
    {"init_audio_manager", "get_audio_sessions", "set_session_volume",
     "set_session_mute", "check_default_device_changed", "cleanup_audio_manager"}

\* Thread t enters command op.  init_audio_manager begins with
\* AudioManager::new() (line 597), every other command with the lock.
Call(t, op) ==
    /\ last = Idle
    /\ pc[t] = Ready
    /\ (op = "get_audio_sessions" /\ AUDIO_MANAGER.some)
       => AUDIO_MANAGER.enumerate_calls < MaxEnumerateCalls
    /\ pc' = [pc EXCEPT ![t] =
                 [Ready EXCEPT !.op = op,
                               !.at = IF op = "init_audio_manager" THEN "new" ELSE "lock"]]
    /\ UNCHANGED <<mixer, focus, default_device, AUDIO_MANAGER, last, switches,
                   endpoint, lock, handles, resolve, com, owner, LAYOUT_MEASUREMENTS, width, failed_poll, pass, joysticks, INPUT_MANAGER, input, reads>>

\* Line 597: AudioManager::new()?, CoInitializeEx and get_default_device_id,
\* before line 599 asks for the lock.  An error returns from the command.
ThreadNew(t) ==
    /\ pc[t].at = "new"
    /\ \E flt \in AtMostFaults(NewCalls) :
          LET manager == new(flt)
          IN  pc' = [pc EXCEPT ![t] =
                        IF manager.ok
                        THEN [@ EXCEPT !.at = "lock", !.manager = manager.manager]
                        ELSE Ready]
    /\ UNCHANGED <<mixer, focus, default_device, AUDIO_MANAGER, last, switches,
                   endpoint, lock, handles, resolve, com, owner, LAYOUT_MEASUREMENTS, width, failed_poll, pass, joysticks, INPUT_MANAGER, input, reads>>

\* Variant of Acquire that does not wait for the guard to be dropped.
AcquireWithoutWaiting(t) ==
    /\ pc[t].at = "lock"
    /\ lock' = t
    /\ pc' = [pc EXCEPT ![t].at = "locked"]
    /\ UNCHANGED <<mixer, focus, default_device, AUDIO_MANAGER, last, switches, endpoint, handles, resolve, com, owner, LAYOUT_MEASUREMENTS, width, failed_poll, pass, joysticks, INPUT_MANAGER, input, reads>>

\* AUDIO_MANAGER.lock(): returns the guard once no thread holds it.
Acquire(t) ==
    /\ pc[t].at = "lock"
    /\ lock = Unlocked
    /\ lock' = t
    /\ pc' = [pc EXCEPT ![t].at = "locked"]
    /\ UNCHANGED <<mixer, focus, default_device, AUDIO_MANAGER, last, switches, endpoint, handles, resolve, com, owner, LAYOUT_MEASUREMENTS, width, failed_poll, pass, joysticks, INPUT_MANAGER, input, reads>>

\* Variant of Unlock in which the command returns without dropping its
\* guard.
ReturnHoldingGuard(t) ==
    /\ pc' = [pc EXCEPT ![t] = Ready]
    /\ lock' = lock

\* The command of thread t returns: its guard is dropped.
Unlock(t) ==
    /\ pc' = [pc EXCEPT ![t] = Ready]
    /\ lock' = Unlocked

\* Thread t is under the lock in command op.
Locked(t, op) == pc[t].at = "locked" /\ pc[t].op = op

\* Line 603: *lock = Some(manager).
LockedInit(t) ==
    /\ Locked(t, "init_audio_manager")
    /\ AUDIO_MANAGER' = pc[t].manager
    /\ Unlock(t)
    /\ UNCHANGED <<mixer, focus, default_device, last, switches, endpoint, handles, resolve, com, owner, LAYOUT_MEASUREMENTS, width, failed_poll, pass, joysticks, INPUT_MANAGER, input, reads>>

\* get_audio_sessions to the end of the device loop (lines 612-347): every
\* record of the pass is inserted (342); nothing is evicted yet.
LockedEnumerateInsert(t) ==
    /\ Locked(t, "get_audio_sessions")
    /\ IF ~AUDIO_MANAGER.some
       THEN Unlock(t) /\ UNCHANGED AUDIO_MANAGER
       ELSE LET list == EnumerateDevices(mixer, {}, 1)
            IN  /\ AUDIO_MANAGER' =
                       [AUDIO_MANAGER EXCEPT !.sessions = InsertAll(@, list, 1)]
                /\ pc' = [pc EXCEPT ![t].at = "retain", ![t].list = list]
                /\ UNCHANGED lock
    /\ UNCHANGED <<mixer, focus, default_device, last, switches, endpoint, handles, resolve, com, owner, LAYOUT_MEASUREMENTS, width, failed_poll, pass, joysticks, INPUT_MANAGER, input, reads>>

\* Lines 350-381 and the return: retain, pruning, counters.
LockedEnumerateRetain(t) ==
    /\ pc[t].at = "retain"
    /\ LET live == LiveSessionIds(pc[t].list)
           retained == MapRetain(AUDIO_MANAGER.sessions, live)
           calls == AUDIO_MANAGER.enumerate_calls + 1
       IN  \E keep \in PruneChoices(retained) :
              LET cache == MapRetain(retained, keep)
              IN  AUDIO_MANAGER' =
                      Manager(cache, AUDIO_MANAGER.current_device_id, calls,
                              LoggedCounts(AUDIO_MANAGER, calls, Cardinality(live),
                                           Cardinality(DOMAIN cache)))
    /\ Unlock(t)
    /\ UNCHANGED <<mixer, focus, default_device, last, switches, endpoint, handles, resolve, com, owner, LAYOUT_MEASUREMENTS, width, failed_poll, pass, joysticks, INPUT_MANAGER, input, reads>>

\* set_session_volume under the lock (lines 629-634).
LockedSetVolume(t) ==
    /\ Locked(t, "set_session_volume")
    /\ IF ~AUDIO_MANAGER.some
       THEN UNCHANGED <<mixer, AUDIO_MANAGER, handles, resolve, com, owner, LAYOUT_MEASUREMENTS, width, failed_poll, pass, joysticks, INPUT_MANAGER, input, reads>>
       ELSE \E session_id \in SessionIds, volume \in Volumes :
               LET done == AudioManager_set_session_volume(
                               AUDIO_MANAGER, mixer, session_id, volume, {})
               IN  mixer' = done.mixer /\ AUDIO_MANAGER' = done.manager
    /\ Unlock(t)
    /\ UNCHANGED <<focus, default_device, last, switches, endpoint, handles, resolve, com, owner, LAYOUT_MEASUREMENTS, width, failed_poll, pass, joysticks, INPUT_MANAGER, input, reads>>

\* set_session_mute under the lock (lines 643-648).
LockedSetMute(t) ==
    /\ Locked(t, "set_session_mute")
    /\ IF ~AUDIO_MANAGER.some
       THEN UNCHANGED <<mixer, AUDIO_MANAGER, handles, resolve, com, owner, LAYOUT_MEASUREMENTS, width, failed_poll, pass, joysticks, INPUT_MANAGER, input, reads>>
       ELSE \E session_id \in SessionIds, muted \in Mutes :
               LET done == AudioManager_set_session_mute(
                               AUDIO_MANAGER, mixer, session_id, muted, {})
               IN  mixer' = done.mixer /\ AUDIO_MANAGER' = done.manager
    /\ Unlock(t)
    /\ UNCHANGED <<focus, default_device, last, switches, endpoint, handles, resolve, com, owner, LAYOUT_MEASUREMENTS, width, failed_poll, pass, joysticks, INPUT_MANAGER, input, reads>>

\* check_default_device_changed under the lock (lines 658-663, 172-182).
LockedCheck(t) ==
    /\ Locked(t, "check_default_device_changed")
    /\ AUDIO_MANAGER' =
           IF AUDIO_MANAGER.some
           THEN [AUDIO_MANAGER EXCEPT !.current_device_id = get_default_device_id({}).id]
           ELSE AUDIO_MANAGER
    /\ Unlock(t)
    /\ UNCHANGED <<mixer, focus, default_device, last, switches, endpoint, handles, resolve, com, owner, LAYOUT_MEASUREMENTS, width, failed_poll, pass, joysticks, INPUT_MANAGER, input, reads>>

\* cleanup_audio_manager under the lock (lines 673-679).
LockedCleanup(t) ==
    /\ Locked(t, "cleanup_audio_manager")
    /\ AUDIO_MANAGER' = IF AUDIO_MANAGER.some THEN cleanup(AUDIO_MANAGER) ELSE AUDIO_MANAGER
    /\ Unlock(t)
    /\ UNCHANGED <<mixer, focus, default_device, last, switches, endpoint, handles, resolve, com, owner, LAYOUT_MEASUREMENTS, width, failed_poll, pass, joysticks, INPUT_MANAGER, input, reads>>

\* ------------------------------ hardware input (hardware_input/mod.rs)
\* joy_id of lines 134 and 196; the Windows build (#[cfg(windows)], line 77).
JoyIds == 0..(MAX_JOYSTICK_DEVICES - 1)

\* The positions joyGetPosEx reports: the X axis, normalised and clamped
\* (line 204), stands for the axes; button 1 for the buttons.
Positions == [x : 0..MaxAxisSteps, pressed : BOOLEAN]

Detached == [attached |-> FALSE, position |-> [x |-> 0, pressed |-> FALSE]]

NoInput == [op |-> "none"]

\* No successful read of any joystick since the most recent enumeration.
NoReads == [id \in JoyIds |-> None]

HidInputManager(devices, axis_cache, button_cache) ==
    [some |-> TRUE, devices |-> devices,
     axis_cache |-> axis_cache, button_cache |-> button_cache]

\* HidInputManager::new (lines 80-90).
HidInputManager_new(hid_ok) ==
    IF hid_ok
    THEN [ok |-> TRUE, manager |-> HidInputManager(<<>>, EmptyMap, EmptyMap)]
    ELSE [ok |-> FALSE, err |-> "Failed to initialise HID API"]

\* HidInputManager::cleanup (lines 93-107).
HidInputManager_cleanup(mgr) == HidInputManager(<<>>, EmptyMap, EmptyMap)

\* Lines 133-172: the DeviceInfo pushed for each joy_id from k on for which
\* joyGetDevCapsW succeeds, in the order of the ids; hid is the set of
\* joysticks the HID list has a name for (lines 117-131, 149-159).
RECURSIVE DevicesFrom(_, _)
DevicesFrom(k, hid) ==
    IF k >= MAX_JOYSTICK_DEVICES THEN <<>>
    ELSE (IF joysticks[k].attached
          THEN <<[id |-> k,
                  name |-> IF k \in hid THEN "product_string" ELSE "szPname"]>>
          ELSE <<>>)
         \o DevicesFrom(k + 1, hid)

\* Variant of enumerate_devices that leaves the caches as they are (lines
\* 174-176 left out).
EnumerateKeepingCaches(mgr, refresh_ok, hid) ==
    IF ~refresh_ok
    THEN [ok |-> FALSE, err |-> "Failed to refresh HID devices",
          manager |-> [mgr EXCEPT !.devices = <<>>]]
    ELSE [ok |-> TRUE,
          manager |-> [mgr EXCEPT !.devices = DevicesFrom(0, hid)]]

\* HidInputManager::enumerate_devices (lines 110-179): the device list is
\* cleared first (111); when refresh_devices fails (114-115) the call
\* returns there; otherwise the list is rebuilt and the caches are cleared
\* (174-176).
enumerate_devices(mgr, refresh_ok, hid) ==
    IF ~refresh_ok
    THEN [ok |-> FALSE, err |-> "Failed to refresh HID devices",
          manager |-> [mgr EXCEPT !.devices = <<>>]]
    ELSE [ok |-> TRUE,
          manager |-> HidInputManager(DevicesFrom(0, hid), EmptyMap, EmptyMap)]

\* joyGetPosEx(device.id) returns JOYERR_NOERROR (lines 196-198).
PositionRead(id, flt) == joysticks[id].attached /\ id \notin flt

\* Lines 199-245: the axes and the buttons built from the position.
AxesOf(id) == [X |-> joysticks[id].position.x]
ButtonsOf(id) == [Button1 |-> joysticks[id].position.pressed]

\* HashMap::default(), of unwrap_or_default() (line 262).
NoButtons == <<>>

\* The AxisData pushed at lines 251-259 and 263-271; device_handle is
\* device.id.to_string(), one string for each id, kept as the id.
AxisData(device, axes, buttons) ==
    [device_handle |-> device.id, device_name |-> device.name,
     axes |-> axes, buttons |-> buttons]

\* Variant of ReadFrom without the fallback of lines 260-272: a device whose
\* read fails is left out.
RECURSIVE ReadFromWithoutFallback(_, _, _)
ReadFromWithoutFallback(mgr, flt, k) ==
    IF k > Len(mgr.devices) THEN [manager |-> mgr, all_axes |-> <<>>]
    ELSE LET device == mgr.devices[k]
             rest == ReadFromWithoutFallback(mgr, flt, k + 1)
         IN  IF PositionRead(device.id, flt)
             THEN [manager |->
                       [rest.manager EXCEPT
                           !.axis_cache = MapInsert(@, device.id, AxesOf(device.id)),
                           !.button_cache = MapInsert(@, device.id, ButtonsOf(device.id))],
                   all_axes |-> <<AxisData(device, AxesOf(device.id),
                                           ButtonsOf(device.id))>> \o rest.all_axes]
             ELSE rest

\* HidInputManager::read_all_axes (lines 187-277) from device k of the list
\* on: the manager and the vector all_axes.  The ids of the list are
\* distinct, so the devices do not see each other's cache entries.
RECURSIVE ReadFrom(_, _, _)
ReadFrom(mgr, flt, k) ==
    IF k > Len(mgr.devices) THEN [manager |-> mgr, all_axes |-> <<>>]
    ELSE LET device == mgr.devices[k]
             rest == ReadFrom(mgr, flt, k + 1)
         IN  IF PositionRead(device.id, flt)
             THEN [manager |->
                       [rest.manager EXCEPT
                           !.axis_cache = MapInsert(@, device.id, AxesOf(device.id)),
                           !.button_cache = MapInsert(@, device.id, ButtonsOf(device.id))],
                   all_axes |-> <<AxisData(device, AxesOf(device.id),
                                           ButtonsOf(device.id))>> \o rest.all_axes]
             ELSE IF device.id \in DOMAIN mgr.axis_cache
             THEN [manager |-> rest.manager,
                   all_axes |->
                       <<AxisData(device, mgr.axis_cache[device.id],
                                  IF device.id \in DOMAIN mgr.button_cache
                                  THEN mgr.button_cache[device.id]
                                  ELSE NoButtons)>> \o rest.all_axes]
             ELSE rest

read_all_axes(mgr, flt) == ReadFrom(mgr, flt, 1)

\* What `input` keeps of a command: its name, the reads that failed in it,
\* its result, what it returned, and the manager, the joysticks and the
\* history of reads it started from.
InputStep(op, faults, result, returned) ==
    [op |-> op, faults |-> faults, result |-> result, returned |-> returned,
     manager |-> INPUT_MANAGER, joysticks |-> joysticks, reads |-> reads]

InputNotInitialised == "Input not initialised. Call init_direct_input first."

\* init_direct_input (lines 313-337): new, enumerate_devices, and only then
\* the assignment to INPUT_MANAGER.
init_direct_input ==
    /\ input = NoInput
    /\ \E hid_ok \in BOOLEAN, refresh_ok \in BOOLEAN, hid \in SUBSET JoyIds :
          LET manager == HidInputManager_new(hid_ok)
              listed == IF manager.ok
                        THEN enumerate_devices(manager.manager, refresh_ok, hid)
                        ELSE manager
          IN  /\ INPUT_MANAGER' = IF listed.ok THEN listed.manager ELSE INPUT_MANAGER
              /\ reads' = IF listed.ok THEN NoReads ELSE reads
              /\ input' = InputStep("init_direct_input", {},
                                    IF listed.ok THEN "Ok" ELSE listed.err, <<>>)
    /\ UNCHANGED <<mixer, focus, default_device, AUDIO_MANAGER, last, switches, endpoint, lock, pc, handles, resolve, com, owner, LAYOUT_MEASUREMENTS, width, failed_poll, pass, joysticks>>

\* get_direct_input_status (lines 341-356).
get_direct_input_status ==
    /\ input = NoInput
    /\ input' = InputStep("get_direct_input_status", {},
                          IF INPUT_MANAGER.some THEN "Input active"
                          ELSE "Input not initialised",
                          IF INPUT_MANAGER.some THEN <<Len(INPUT_MANAGER.devices)>>
                          ELSE <<>>)
    /\ UNCHANGED <<mixer, focus, default_device, AUDIO_MANAGER, last, switches, endpoint, lock, pc, handles, resolve, com, owner, LAYOUT_MEASUREMENTS, width, failed_poll, pass, joysticks, INPUT_MANAGER, reads>>

\* enumerate_input_devices (lines 360-380).
enumerate_input_devices ==
    /\ input = NoInput
    /\ IF ~INPUT_MANAGER.some
       THEN /\ input' = InputStep("enumerate_input_devices", {},
                                  InputNotInitialised, <<>>)
            /\ UNCHANGED <<INPUT_MANAGER, reads>>
       ELSE \E refresh_ok \in BOOLEAN, hid \in SUBSET JoyIds :
               LET listed == enumerate_devices(INPUT_MANAGER, refresh_ok, hid)
               IN  /\ INPUT_MANAGER' = listed.manager
                   /\ reads' = NoReads
                   /\ input' = InputStep("enumerate_input_devices", {},
                                         IF listed.ok THEN "Ok" ELSE listed.err,
                                         IF listed.ok THEN listed.manager.devices
                                         ELSE <<>>)
    /\ UNCHANGED <<mixer, focus, default_device, AUDIO_MANAGER, last, switches, endpoint, lock, pc, handles, resolve, com, owner, LAYOUT_MEASUREMENTS, width, failed_poll, pass, joysticks>>

\* The history of reads after a read_all_axes with failing reads flt.
ReadsAfter(mgr, flt) ==
    [id \in JoyIds |->
        IF /\ \E k \in 1..Len(mgr.devices) : mgr.devices[k].id = id
           /\ PositionRead(id, flt)
        THEN [some |-> TRUE, axes |-> AxesOf(id), buttons |-> ButtonsOf(id)]
        ELSE reads[id]]

\* get_all_axis_values (lines 384-394).
get_all_axis_values ==
    /\ input = NoInput
    /\ IF ~INPUT_MANAGER.some
       THEN /\ input' = InputStep("get_all_axis_values", {},
                                  InputNotInitialised, <<>>)
            /\ UNCHANGED <<INPUT_MANAGER, reads>>
       ELSE \E flt \in SUBSET {INPUT_MANAGER.devices[k].id :
                                   k \in 1..Len(INPUT_MANAGER.devices)} :
               LET read == read_all_axes(INPUT_MANAGER, flt)
               IN  /\ INPUT_MANAGER' = read.manager
                   /\ reads' = ReadsAfter(INPUT_MANAGER, flt)
                   /\ input' = InputStep("get_all_axis_values", flt, "Ok",
                                         read.all_axes)
    /\ UNCHANGED <<mixer, focus, default_device, AUDIO_MANAGER, last, switches, endpoint, lock, pc, handles, resolve, com, owner, LAYOUT_MEASUREMENTS, width, failed_poll, pass, joysticks>>

\* cleanup_input_manager (lines 398-410).
cleanup_input_manager ==
    /\ input = NoInput
    /\ INPUT_MANAGER' = IF INPUT_MANAGER.some
                        THEN HidInputManager_cleanup(INPUT_MANAGER)
                        ELSE INPUT_MANAGER
    /\ input' = InputStep("cleanup_input_manager", {},
                          IF INPUT_MANAGER.some
                          THEN "Input manager cleaned up successfully"
                          ELSE "Input manager not initialised", <<>>)
    /\ UNCHANGED <<mixer, focus, default_device, AUDIO_MANAGER, last, switches, endpoint, lock, pc, handles, resolve, com, owner, LAYOUT_MEASUREMENTS, width, failed_poll, pass, joysticks, reads>>

\* The input command returns to its caller.
InputReturn ==
    /\ input # NoInput
    /\ input' = NoInput
    /\ UNCHANGED <<mixer, focus, default_device, AUDIO_MANAGER, last, switches, endpoint, lock, pc, handles, resolve, com, owner, LAYOUT_MEASUREMENTS, width, failed_poll, pass, joysticks, INPUT_MANAGER, reads>>

\* Joystick id is plugged in, at rest.
AttachJoystick(id) ==
    /\ input = NoInput
    /\ ~joysticks[id].attached
    /\ joysticks' = [joysticks EXCEPT ![id].attached = TRUE]
    /\ UNCHANGED <<mixer, focus, default_device, AUDIO_MANAGER, last, switches, endpoint, lock, pc, handles, resolve, com, owner, LAYOUT_MEASUREMENTS, width, failed_poll, pass, INPUT_MANAGER, input, reads>>

\* Joystick id is unplugged.
DetachJoystick(id) ==
    /\ input = NoInput
    /\ joysticks[id].attached
    /\ joysticks' = [joysticks EXCEPT ![id] = Detached]
    /\ UNCHANGED <<mixer, focus, default_device, AUDIO_MANAGER, last, switches, endpoint, lock, pc, handles, resolve, com, owner, LAYOUT_MEASUREMENTS, width, failed_poll, pass, INPUT_MANAGER, input, reads>>

\* The stick or the button of joystick id is moved.
MoveJoystick(id) ==
    /\ input = NoInput
    /\ joysticks[id].attached
    /\ \E position \in Positions :
          /\ position # joysticks[id].position
          /\ joysticks' = [joysticks EXCEPT ![id].position = position]
    /\ UNCHANGED <<mixer, focus, default_device, AUDIO_MANAGER, last, switches, endpoint, lock, pc, handles, resolve, com, owner, LAYOUT_MEASUREMENTS, width, failed_poll, pass, INPUT_MANAGER, input, reads>>

\* ------------------------------------------------------------ environment
\* Process dp[2] opens a stream on device dp[1].
OpenSession(dp) ==
    /\ last = Idle
    /\ ~mixer[dp].open
    /\ mixer' = [mixer EXCEPT ![dp] = Fresh]
    /\ UNCHANGED <<focus, default_device, AUDIO_MANAGER, last, switches, endpoint, lock, pc, handles, resolve, com, owner, LAYOUT_MEASUREMENTS, width, failed_poll, pass, joysticks, INPUT_MANAGER, input, reads>>

\* The stream of process dp[2] on device dp[1] closes.
CloseSession(dp) ==
    /\ last = Idle
    /\ mixer[dp].open
    /\ mixer' = [mixer EXCEPT ![dp] = Closed]
    /\ UNCHANGED <<focus, default_device, AUDIO_MANAGER, last, switches, endpoint, lock, pc, handles, resolve, com, owner, LAYOUT_MEASUREMENTS, width, failed_poll, pass, joysticks, INPUT_MANAGER, input, reads>>

\* The OS makes device d the default render endpoint.
SwitchDefaultDevice(d) ==
    /\ last = Idle
    /\ d # default_device
    /\ switches < MaxSwitches
    /\ default_device' = d
    /\ switches' = switches + 1
    /\ UNCHANGED <<mixer, focus, AUDIO_MANAGER, last, endpoint, lock, pc, handles, resolve, com, owner, LAYOUT_MEASUREMENTS, width, failed_poll, pass, joysticks, INPUT_MANAGER, input, reads>>

\* The command returns to its caller.
Return ==
    /\ last # Idle
    /\ last' = Idle
    /\ UNCHANGED <<mixer, focus, default_device, AUDIO_MANAGER, switches, endpoint, lock, pc, handles, resolve, com, owner, LAYOUT_MEASUREMENTS, width, failed_poll, pass, joysticks, INPUT_MANAGER, input, reads>>

\* ------------------------------------------------------- specification
Init ==
    /\ mixer = [dp \in Streams |-> Closed]
    /\ focus \in {"volume", "mute"}
    /\ default_device = 1
    /\ AUDIO_MANAGER = None
    /\ last = Idle
    /\ switches = 0
    /\ endpoint = [d \in Devices |-> [volume |-> VOL_ONE, is_muted |-> FALSE]]
    /\ lock = Unlocked
    /\ pc = [t \in Threads |-> Ready]
    /\ handles = 0
    /\ resolve = NotResolving
    /\ com = [t \in Threads |-> 0]
    /\ owner = NoThread
    /\ LAYOUT_MEASUREMENTS = LayoutMeasurements_default
    /\ width = NoWidth
    /\ failed_poll = NoFailedPoll
    /\ pass = NoPass
    /\ joysticks = [id \in JoyIds |-> Detached]
    /\ INPUT_MANAGER = None
    /\ input = NoInput
    /\ reads = NoReads

set_session_volume ==
    /\ last = Idle
    /\ \E session_id \in SessionIds, volume \in Volumes :
          \E flt \in SetFaults(session_id, "SetMasterVolume") :
              SetSessionVolume(session_id, volume, flt)

set_session_mute ==
    /\ last = Idle
    /\ \E session_id \in SessionIds, muted \in Mutes :
          \E flt \in SetFaults(session_id, "SetMute") :
              SetSessionMute(session_id, muted, flt)

set_system_volume ==
    /\ last = Idle
    /\ \E volume \in Volumes :
          \E flt \in SystemFaults("SetMasterVolumeLevelScalar") :
              SetSystemVolume(volume, flt)

set_system_mute ==
    /\ last = Idle
    /\ \E muted \in Mutes :
          \E flt \in SystemFaults("SetMute") : SetSystemMute(muted, flt)

\* The mixer changes and the commands run only between two commands: a
\* command holds the lock of AUDIO_MANAGER from its first step to its return.
Next ==
    \/ \E dp \in Streams : OpenSession(dp)
    \/ \E dp \in Streams : CloseSession(dp)
    \/ init_audio_manager
    \/ get_audio_sessions
    \/ set_session_volume
    \/ set_session_mute
    \/ check_default_device_changed
    \/ cleanup_audio_manager
    \/ Return

Spec == Init /\ [][Next]_vars

\* The default device and its polling: no application plays, the default
\* device switches at any time.
NextDevice ==
    \/ \E d \in Devices : SwitchDefaultDevice(d)
    \/ init_audio_manager
    \/ check_default_device_changed
    \/ cleanup_audio_manager
    \/ Return

SpecDevice == Init /\ [][NextDevice]_vars

\* The polling of the default device next to the session cache: streams
\* open and are enumerated, the default device switches, polls fail.
NextPoll ==
    \/ \E dp \in ThreadStreams : OpenSession(dp)
    \/ \E d \in Devices : SwitchDefaultDevice(d)
    \/ init_audio_manager
    \/ get_audio_sessions
    \/ check_default_device_changed_noting_failures
    \/ cleanup_audio_manager
    \/ Return

SpecPoll == Init /\ [][NextPoll]_vars

\* The volume scalars: streams open, are enumerated, and the callers set
\* the volume of sessions and of the default endpoint.
NextVolume ==
    \/ \E dp \in Streams : OpenSession(dp)
    \/ init_audio_manager
    \/ get_audio_sessions
    \/ set_session_volume
    \/ set_system_volume
    \/ Return

SpecVolume == Init /\ [][NextVolume]_vars

\* The commands as steps of concurrent threads, while the streams of one
\* process open and close on the devices and the default device changes.
NextThreads ==
    \/ \E dp \in ThreadStreams : OpenSession(dp)
    \/ \E dp \in ThreadStreams : CloseSession(dp)
    \/ \E d \in Devices : SwitchDefaultDevice(d)
    \/ \E t \in Threads, op \in ThreadOps : Call(t, op)
    \/ \E t \in Threads : ThreadNew(t)
    \/ \E t \in Threads : Acquire(t)
    \/ \E t \in Threads : LockedInit(t)
    \/ \E t \in Threads : LockedEnumerateInsert(t)
    \/ \E t \in Threads : LockedEnumerateRetain(t)
    \/ \E t \in Threads : LockedSetVolume(t)
    \/ \E t \in Threads : LockedSetMute(t)
    \/ \E t \in Threads : LockedCheck(t)
    \/ \E t \in Threads : LockedCleanup(t)

SpecThreads == Init /\ [][NextThreads]_vars

\* A step of thread t under the lock: the OS and mixer calls it makes return.
LockedStep(t) ==
    \/ LockedInit(t)
    \/ LockedEnumerateInsert(t)
    \/ LockedEnumerateRetain(t)
    \/ LockedSetVolume(t)
    \/ LockedSetMute(t)
    \/ LockedCheck(t)
    \/ LockedCleanup(t)

\* The commands of two threads while a stream opens, without the other
\* changes of the environment.
NextProgress ==
    \/ \E dp \in ThreadStreams : OpenSession(dp)
    \/ \E t \in Threads, op \in ThreadOps : Call(t, op)
    \/ \E t \in Threads : ThreadNew(t)
    \/ \E t \in Threads : Acquire(t)
    \/ \E t \in Threads : LockedStep(t)

\* Fair scheduling: a thread that can take a step of its command takes it
\* (every OS and mixer call returns), and a thread that waits for the lock
\* gets it if the lock is free again and again.  No thread has to start a
\* command, and no stream has to open.
FairThreads ==
    \A t \in Threads :
        /\ WF_vars(ThreadNew(t))
        /\ WF_vars(LockedStep(t))
        /\ SF_vars(Acquire(t))

SpecProgress == Init /\ [][NextProgress]_vars /\ FairThreads

\* Every command, called in any order, while the streams of one process
\* open on the devices.
NextCommands ==
    \/ \E dp \in ThreadStreams : OpenSession(dp)
    \/ init_audio_manager
    \/ get_audio_sessions
    \/ set_session_volume
    \/ set_session_mute
    \/ check_default_device_changed
    \/ cleanup_audio_manager
    \/ get_system_volume
    \/ get_system_mute
    \/ set_system_volume
    \/ set_system_mute
    \/ Return

SpecCommands == Init /\ [][NextCommands]_vars

\* The calls of get_process_name that the enumerations make, one after the
\* other, for every process id.
NextResolve ==
    \/ \E process_id \in {0} \cup AppPids : ResolveEnter(process_id)
    \/ ResolveOpen
    \/ ResolveQuery
    \/ ResolveDrop
    \/ ResolveReturn

SpecResolve == Init /\ [][NextResolve]_vars

\* Initialize, called on any thread, succeeding, failing and repeated,
\* with cleanups and device switches in between.
NextApartment ==
    \/ init_on_thread
    \/ cleanup_audio_manager
    \/ \E d \in Devices : SwitchDefaultDevice(d)
    \/ Return

SpecApartment == Init /\ [][NextApartment]_vars

\* Initialising again: streams open and are enumerated, the default device
\* switches, and any thread initialises at any time.
NextReinit ==
    \/ \E dp \in ThreadStreams : OpenSession(dp)
    \/ \E d \in Devices : SwitchDefaultDevice(d)
    \/ init_on_thread
    \/ get_audio_sessions
    \/ Return

SpecReinit == Init /\ [][NextReinit]_vars

\* Enumerations of streams whose instance identifiers may be unavailable.
NextIdentifiers ==
    \/ \E dp \in Streams : OpenSession(dp)
    \/ \E dp \in Streams : CloseSession(dp)
    \/ init_audio_manager
    \/ get_audio_sessions_unidentified
    \/ Return

SpecIdentifiers == Init /\ [][NextIdentifiers]_vars

\* The system endpoint commands, with a cache filled by enumerations and a
\* default device that changes between the polls.
NextSystem ==
    \/ \E dp \in ThreadStreams : OpenSession(dp)
    \/ \E d \in Devices : SwitchDefaultDevice(d)
    \/ init_audio_manager
    \/ get_audio_sessions
    \/ get_system_volume
    \/ get_system_mute
    \/ set_system_volume
    \/ set_system_mute
    \/ Return

SpecSystem == Init /\ [][NextSystem]_vars

\* The frontend stores measurements and asks for window widths.
NextLayout ==
    \/ update_layout_measurements
    \/ resize_window_to_content
    \/ WidthReturn

SpecLayout == Init /\ [][NextLayout]_vars

\* The cache pass of enumerate_sessions on caches and observations of every
\* size up to MaxObserved.
NextPass ==
    \/ CachePass
    \/ PassReturn

SpecPass == Init /\ [][NextPass]_vars

\* The input commands while joysticks are plugged, moved and unplugged.
NextInput ==
    \/ \E id \in JoyIds : AttachJoystick(id)
    \/ \E id \in JoyIds : DetachJoystick(id)
    \/ \E id \in JoyIds : MoveJoystick(id)
    \/ init_direct_input
    \/ get_direct_input_status
    \/ enumerate_input_devices
    \/ get_all_axis_values
    \/ cleanup_input_manager
    \/ InputReturn

SpecInput == Init /\ [][NextInput]_vars

\* ---------------------------------------------------------------- properties
\* What a property needs of the command in `last`.
SetCommands == {"set_session_volume", "set_session_mute"}

\* The command in `last` is a set command that ran on an installed manager.
SetCommandRan == last.op \in SetCommands /\ last.manager.some

\* The set command in `last` found its session_id in the cache.
TargetCached == SetCommandRan /\ last.session_id \in DOMAIN last.manager.sessions

\* The process the set command in `last` aims at.
TargetPid == last.manager.sessions[last.session_id].process_id

\* clamp(v) of the specification.
SpecClamp(v) == IF v < VOL_ZERO THEN VOL_ZERO ELSE IF v > VOL_ONE THEN VOL_ONE ELSE v

\* The mixer call that sets the attribute of the command in `last`.
Setter == IF last.op = "set_session_volume" THEN "SetMasterVolume" ELSE "SetMute"

\* The stream dp has the value the set command in `last` asked for.
HasNewValue(dp) ==
    IF last.op = "set_session_volume"
    THEN mixer[dp].volume = SpecClamp(last.volume)
    ELSE mixer[dp].is_muted = last.muted

\* The streams of the target process that were live when the command began.
TargetStreams == {dp \in Streams : last.mixer[dp].open /\ dp[2] = TargetPid}

\* The set call on stream dp was made and succeeded: the endpoints were
\* listed and counted, the device and the session were accessible and the
\* set call itself did not fail.
SetCallSucceeded(dp) ==
    /\ last.mixer[dp].open
    /\ last.faults \cap EndpointCalls = {}
    /\ last.faults \cap {<<"Activate", dp[1], 0>>,
                         <<"GetSession", dp[1], dp[2]>>,
                         <<"GetProcessId", dp[1], dp[2]>>,
                         <<"ISimpleAudioVolume", dp[1], dp[2]>>,
                         <<Setter, dp[1], dp[2]>>} = {}

\* The command in `last` is an enumeration on an installed manager.
EnumerationRan == last.op = "get_audio_sessions" /\ last.manager.some

\* The session ids of the list the enumeration returned.
ReturnedIds == {last.returned[k].session_id : k \in 1..Len(last.returned)}

\* The last record of the returned list with session_id id.
LastReturned(id) ==
    LET at == {k \in 1..Len(last.returned) : last.returned[k].session_id = id}
    IN  last.returned[CHOOSE k \in at : \A j \in at : j <= k]

\* C1: mute fan-out.  When set_session_mute(S, m) on a cached S of process P
\* returns success and no mixer call failed, every live session of P on
\* every device has mute state m and the cache entry of S has is_muted = m.
MuteFanOut ==
    (TargetCached /\ last.op = "set_session_mute"
        /\ last.faults = {} /\ last.result = "Ok")
    => /\ \A dp \in LiveStreams(mixer) :
              dp[2] = TargetPid => mixer[dp].is_muted = last.muted
       /\ AUDIO_MANAGER.sessions[last.session_id].is_muted = last.muted

\* Reached: set_session_mute(S, true) succeeded with no failing call and
\* muted two streams of the process on two devices that were not muted.
MuteFanOutWitness ==
    /\ TargetCached /\ last.op = "set_session_mute"
    /\ last.faults = {} /\ last.result = "Ok" /\ last.muted
    /\ \E a \in TargetStreams, b \in TargetStreams :
          /\ a[1] # b[1]
          /\ ~last.mixer[a].is_muted /\ ~last.mixer[b].is_muted
          /\ mixer[a].is_muted /\ mixer[b].is_muted

\* C2: volume fan-out.  When set_session_volume(S, v) on a cached S of
\* process P returns success and no mixer call failed, every live session
\* of P has volume clamp(v) and every live session of another process has
\* the volume and the mute state it had before the call.
VolumeFanOut ==
    (TargetCached /\ last.op = "set_session_volume"
        /\ last.faults = {} /\ last.result = "Ok")
    => \A dp \in LiveStreams(mixer) :
          IF dp[2] = TargetPid
          THEN mixer[dp].volume = SpecClamp(last.volume)
          ELSE mixer[dp] = last.mixer[dp]

\* Reached: set_session_volume with a volume below 0.0 succeeded with no
\* failing call, brought two streams of the process on two devices from 1.0
\* to 0.0, and a stream of another process was live.
VolumeFanOutWitness ==
    /\ TargetCached /\ last.op = "set_session_volume"
    /\ last.faults = {} /\ last.result = "Ok" /\ last.volume < VOL_ZERO
    /\ \E a \in TargetStreams, b \in TargetStreams :
          /\ a[1] # b[1]
          /\ last.mixer[a].volume = VOL_ONE /\ last.mixer[b].volume = VOL_ONE
          /\ mixer[a].volume = VOL_ZERO /\ mixer[b].volume = VOL_ZERO
    /\ \E dp \in LiveStreams(mixer) : dp[2] # TargetPid

\* C3: a set command with a session_id that is not a key of the cache
\* returns the error "Session not found" and changes neither the cache nor
\* the volume or mute state of any live session.
UnknownSessionRejected ==
    (SetCommandRan /\ last.session_id \notin DOMAIN last.manager.sessions)
    => /\ last.result = "Session not found"
       /\ AUDIO_MANAGER = last.manager
       /\ mixer = last.mixer

\* Reached: a set command named a session_id that is not cached while the
\* cache had an entry and a stream was live.
UnknownSessionWitness ==
    /\ SetCommandRan
    /\ last.session_id \notin DOMAIN last.manager.sessions
    /\ DOMAIN last.manager.sessions # {}
    /\ LiveStreams(last.mixer) # {}
    /\ last.result = "Session not found"

\* C4: a set command returns success only if the set call on at least one
\* live session of the target process succeeded; when the set call fails on
\* every matching session the command fails with "No sessions found for
\* process_id".
SuccessNeedsAnUpdate ==
    (TargetCached /\ last.result = "Ok")
    => \E dp \in TargetStreams : SetCallSucceeded(dp)

\* C5: partial apply is success.  When the set call succeeded on at least
\* one live session of the target process and another live session of the
\* process was not updated (its device, its session or its set call
\* failed), the command returns success and every session whose set call
\* succeeded has the new value.
PartialApplySucceeds ==
    (/\ TargetCached
     /\ \E dp \in TargetStreams : SetCallSucceeded(dp)
     /\ \E dp \in TargetStreams : ~SetCallSucceeded(dp))
    => /\ last.result = "Ok"
       /\ \A dp \in TargetStreams : SetCallSucceeded(dp) => HasNewValue(dp)

\* Reached: set_session_volume changed one stream of the process from 1.0 to
\* 0.0 while the device of its other stream failed, and returned success.
PartialApplyWitness ==
    /\ TargetCached /\ last.op = "set_session_volume" /\ last.result = "Ok"
    /\ \E a \in TargetStreams, b \in TargetStreams :
          /\ SetCallSucceeded(a)
          /\ <<"Activate", b[1], 0>> \in last.faults
          /\ last.mixer[a].volume = VOL_ONE /\ mixer[a].volume = VOL_ZERO
          /\ mixer[b].volume = VOL_ONE

CacheBound ==
    AUDIO_MANAGER.some
    => Cardinality(DOMAIN AUDIO_MANAGER.sessions) <= MAX_SESSION_CACHE_SIZE

\* Reached: an enumeration returned more records than the cap, with an entry
\* cached before, and left a cache that is not empty.
CacheBoundWitness ==
    /\ EnumerationRan /\ last.result = "Ok"
    /\ Cardinality(ReturnedIds) > MAX_SESSION_CACHE_SIZE
    /\ DOMAIN last.manager.sessions # {}
    /\ DOMAIN AUDIO_MANAGER.sessions # {}

\* C8: every cached record and every returned record has process_id # 0; a
\* live session of process id 0, or one whose process id query fails, is
\* neither returned nor cached.
NoSystemSession ==
    /\ AUDIO_MANAGER.some
       => \A id \in DOMAIN AUDIO_MANAGER.sessions :
              AUDIO_MANAGER.sessions[id].process_id # 0
    /\ (EnumerationRan /\ last.result = "Ok")
       => /\ \A k \in 1..Len(last.returned) : last.returned[k].process_id # 0
          /\ \A dp \in Streams :
                <<"GetProcessId", dp[1], dp[2]>> \in last.faults
                => /\ <<"inst", dp[1], dp[2]>> \notin ReturnedIds
                   /\ <<"inst", dp[1], dp[2]>> \notin DOMAIN AUDIO_MANAGER.sessions

\* Reached: an enumeration in which the process id query of a live, cached
\* stream failed, while another stream of the same device was returned.
NoSystemSessionWitness ==
    /\ EnumerationRan /\ last.result = "Ok"
    /\ \E dp \in LiveStreams(last.mixer) :
          /\ <<"GetProcessId", dp[1], dp[2]>> \in last.faults
          /\ <<"inst", dp[1], dp[2]>> \in DOMAIN last.manager.sessions
          /\ \E other \in LiveStreams(last.mixer) :
                /\ other[1] = dp[1] /\ other # dp
                /\ <<"inst", other[1], other[2]>> \in ReturnedIds

\* The devices that failed in the enumeration in `last`.
FailedDevices == {d \in Devices : <<"Activate", d, 0>> \in last.faults}

\* C9: partial enumeration.  When the endpoints were listed and the only
\* failures are devices that cannot be accessed, activated or queried, the
\* enumeration returns success with exactly one record for each live
\* application session of the remaining devices, with its live values.
PartialEnumeration ==
    (/\ EnumerationRan
     /\ FailedDevices # {}
     /\ last.faults \subseteq {<<"Activate", d, 0>> : d \in Devices})
    => LET remaining == {dp \in LiveStreams(last.mixer) : dp[1] \notin FailedDevices}
       IN  /\ last.result = "Ok"
           /\ Len(last.returned) = Cardinality(remaining)
           /\ ReturnedIds = {<<"inst", dp[1], dp[2]>> : dp \in remaining}
           /\ \A dp \in remaining :
                 LET r == LastReturned(<<"inst", dp[1], dp[2]>>)
                 IN  /\ r.process_id = dp[2]
                     /\ r.volume = last.mixer[dp].volume
                     /\ r.is_muted = last.mixer[dp].is_muted

\* Reached: an enumeration in which one device failed while it had a live
\* stream, and the stream of another device was returned.
PartialEnumerationWitness ==
    /\ EnumerationRan /\ last.result = "Ok"
    /\ Cardinality(FailedDevices) = 1
    /\ \E dp \in LiveStreams(last.mixer) : dp[1] \in FailedDevices
    /\ \E dp \in LiveStreams(last.mixer) :
          dp[1] \notin FailedDevices /\ <<"inst", dp[1], dp[2]>> \in ReturnedIds

\* C10: the only failure that makes enumerate_sessions return an error is
\* the failure to create the device enumerator; with any other failure the
\* call still returns a list.
OnlyEnumeratorIsFatal ==
    (EnumerationRan /\ <<"CoCreateInstance", 0, 0>> \notin last.faults)
    => last.result = "Ok"

\* The command in `last` is a poll of the default device on an installed
\* manager, and one that resolved the default device.
PollRan == last.op = "check_default_device_changed" /\ last.manager.some
PollSucceeded == PollRan /\ last.result \in {"true", "false"}

\* A poll returns true exactly when the resolved id differs from the stored
\* one, and stores the resolved id.
PollComparesAndStores ==
    PollSucceeded
    => /\ last.result = "true" <=> default_device # last.manager.current_device_id
       /\ AUDIO_MANAGER.current_device_id = default_device

CleanupRan == last.op = "cleanup_audio_manager" /\ last.manager.some

\* The manager is as a cleanup leaves it.
Cleaned(mgr) ==
    /\ DOMAIN mgr.sessions = {}
    /\ mgr.enumerate_calls = 0
    /\ mgr.last_logged_counts = NoCounts
    /\ mgr.current_device_id = EmptyDeviceId

\* C12: cleanup is idempotent.  Every cleanup returns success and leaves the
\* cache empty, the call counter 0, the last-logged counts unset and the
\* stored device id empty; a cleanup that starts where a cleanup ended
\* leaves the manager as it found it.
CleanupIdempotent ==
    CleanupRan
    => /\ last.result = "Audio manager cleaned up successfully"
       /\ Cleaned(AUDIO_MANAGER)
       /\ Cleaned(last.manager) => AUDIO_MANAGER = last.manager

\* Reached: a cleanup ran on the manager that a cleanup had left.
CleanupTwiceWitness ==
    /\ CleanupRan /\ Cleaned(last.manager)
    /\ last.result = "Audio manager cleaned up successfully"
    /\ AUDIO_MANAGER = last.manager

\* C13: cleanup never fails.  In every state, with or without a manager,
\* cleanup_audio_manager returns one of its two success strings; when no
\* manager is installed it installs none and changes nothing.
CleanupNeverFails ==
    last.op = "cleanup_audio_manager"
    => /\ last.result \in {"Audio manager cleaned up successfully",
                           "Audio manager not initialised"}
       /\ ~last.manager.some
          => /\ AUDIO_MANAGER = None
             /\ mixer = last.mixer
             /\ switches = last.switches

\* Reached: a cleanup with no manager installed returned its status string
\* while a stream was live.
CleanupWithoutManagerWitness ==
    /\ last.op = "cleanup_audio_manager"
    /\ ~last.manager.some /\ AUDIO_MANAGER = None
    /\ last.result = "Audio manager not initialised"
    /\ LiveStreams(mixer) # {}

\* Every volume of the mixer, of the endpoints and of the cache is a scalar
\* of the range 0.0..1.0.
VolumesInRange ==
    /\ \A dp \in Streams : mixer[dp].volume \in VOL_ZERO..VOL_ONE
    /\ \A d \in Devices : endpoint[d].volume \in VOL_ZERO..VOL_ONE
    /\ AUDIO_MANAGER.some
       => \A id \in DOMAIN AUDIO_MANAGER.sessions :
              AUDIO_MANAGER.sessions[id].volume \in VOL_ZERO..VOL_ONE

\* C14: clamping.  For every requested volume v, below 0.0 and above 1.0
\* included, the value set_session_volume applies to a live session and the
\* value it writes to the cache entry are min(max(v, 0), 1); the value
\* set_system_volume applies to the default endpoint is min(max(v, 0), 1);
\* no volume outside the range is ever written.
Clamping ==
    /\ VolumesInRange
    /\ (TargetCached /\ last.op = "set_session_volume")
       => /\ \A dp \in TargetStreams :
                 SetCallSucceeded(dp) => mixer[dp].volume = SpecClamp(last.volume)
          /\ \A dp \in Streams :
                 mixer[dp].volume \in {last.mixer[dp].volume, SpecClamp(last.volume)}
          /\ last.result = "Ok"
             => AUDIO_MANAGER.sessions[last.session_id].volume = SpecClamp(last.volume)
          /\ AUDIO_MANAGER.sessions[last.session_id].volume
                 \in {last.manager.sessions[last.session_id].volume,
                      SpecClamp(last.volume)}
    /\ (last.op = "set_system_volume" /\ last.manager.some)
       => /\ last.result = "Ok"
             => endpoint[default_device].volume = SpecClamp(last.volume)
          /\ \A d \in Devices :
                 endpoint[d].volume \in {last.endpoint[d].volume, SpecClamp(last.volume)}

\* Reached: set_session_volume with a volume above 1.0 brought a live
\* session and the cache entry from 0.0 to 1.0, after set_system_volume had
\* brought the default endpoint to 0.0.
ClampingWitness ==
    /\ TargetCached /\ last.op = "set_session_volume" /\ last.result = "Ok"
    /\ last.volume > VOL_ONE
    /\ \E dp \in TargetStreams :
          last.mixer[dp].volume = VOL_ZERO /\ mixer[dp].volume = VOL_ONE
    /\ last.manager.sessions[last.session_id].volume = VOL_ZERO
    /\ AUDIO_MANAGER.sessions[last.session_id].volume = VOL_ONE
    /\ endpoint[default_device].volume = VOL_ZERO

\* C15: cache frame of a set command.  set_session_volume(S, v) changes at
\* most the volume field of cache entry S and set_session_mute(S, m) at
\* most its is_muted field; every other entry, the sessions of the same
\* process whose live state the command changed included, keeps its cached
\* value, and the set of cached session ids is unchanged.
SetCacheFrame ==
    SetCommandRan
    => /\ AUDIO_MANAGER.some
       /\ DOMAIN AUDIO_MANAGER.sessions = DOMAIN last.manager.sessions
       /\ \A id \in DOMAIN last.manager.sessions :
              LET old == last.manager.sessions[id]
                  now == AUDIO_MANAGER.sessions[id]
              IN  IF id # last.session_id
                  THEN now = old
                  ELSE IF last.op = "set_session_volume"
                  THEN now = [old EXCEPT !.volume = now.volume]
                  ELSE now = [old EXCEPT !.is_muted = now.is_muted]

\* Reached: a set command changed the cache entry of S and the live state
\* of another stream of the same process, whose own cache entry kept the
\* value it had and so differs from the live stream.
SetCacheFrameWitness ==
    /\ TargetCached /\ last.result = "Ok"
    /\ AUDIO_MANAGER.sessions[last.session_id] # last.manager.sessions[last.session_id]
    /\ \E dp \in TargetStreams :
          LET id == <<"inst", dp[1], dp[2]>>
          IN  /\ id # last.session_id
              /\ id \in DOMAIN last.manager.sessions
              /\ mixer[dp] # last.mixer[dp]
              /\ AUDIO_MANAGER.sessions[id] = last.manager.sessions[id]
              /\ IF last.op = "set_session_volume"
                 THEN AUDIO_MANAGER.sessions[id].volume # mixer[dp].volume
                 ELSE AUDIO_MANAGER.sessions[id].is_muted # mixer[dp].is_muted

\* Thread t is between the return of AUDIO_MANAGER.lock() and the return
\* of its command: the steps that read and write the cache.
TouchesCache(t) == pc[t].at \in {"locked", "retain"}

\* An enumeration has inserted the records of its pass and has not yet
\* evicted the stale entries.
PartiallyUpdated == \E u \in Threads : pc[u].at = "retain"

\* C16: atomicity under concurrency.  With threads that concurrently call
\* enumerate, set_session_volume, set_session_mute, check_device_changed
\* and cleanup, the steps that touch the cache are serialised: at most one
\* thread is in them, and no thread is about to read the cache while the
\* enumeration of another has inserted its records and not yet evicted.
CacheSerialised ==
    /\ \A t \in Threads, u \in Threads :
          (t # u /\ TouchesCache(t)) => ~TouchesCache(u)
    /\ \A t \in Threads : pc[t].at = "locked" => ~PartiallyUpdated

\* Reached: an enumeration stands between insert and retain, with a stale
\* entry and a live one in the cache, while the other thread waits for the
\* lock in set_session_volume.
CacheSerialisedWitness ==
    \E t \in Threads, u \in Threads :
        /\ pc[u].at = "retain" /\ lock = u
        /\ \E id \in DOMAIN AUDIO_MANAGER.sessions :
              id \notin LiveSessionIds(pc[u].list)
        /\ \E id \in DOMAIN AUDIO_MANAGER.sessions :
              id \in LiveSessionIds(pc[u].list)
        /\ pc[t].at = "lock" /\ pc[t].op = "set_session_volume"

\* Thread t is in a step that queries or mutates the audio subsystem: COM
\* initialisation and default-device resolution (AudioManager::new), or
\* the body of a command.
AudioStep(t) == pc[t].at \in {"new", "locked", "retain"}

\* C17: every public operation, initialize included, holds the lock for
\* its full duration.  No thread is in a step that queries or mutates the
\* audio subsystem without holding the lock, and no two threads are in such
\* steps at once.
LockHeldThroughout ==
    /\ \A t \in Threads : AudioStep(t) => lock = t
    /\ \A t \in Threads, u \in Threads :
          (t # u /\ AudioStep(t)) => ~AudioStep(u)

\* The commands that need an installed manager.
GuardedCommands ==
    {"get_audio_sessions", "set_session_volume", "set_session_mute",
     "check_default_device_changed", "get_system_volume", "get_system_mute",
     "set_system_volume", "set_system_mute"}

\* C18: before the first successful initialize, every operation other than
\* initialize and cleanup fails with the "not initialised" error, which is
\* not the "Session not found" error, returns nothing, and changes neither
\* the manager nor the live sessions nor the endpoints.
NotInitialisedRejected ==
    (last.op \in GuardedCommands /\ ~last.manager.some)
    => /\ last.result = "Audio manager not initialised. Call init_audio_manager first."
       /\ last.result # SessionNotFound
       /\ last.returned = <<>>
       /\ AUDIO_MANAGER = last.manager
       /\ mixer = last.mixer
       /\ endpoint = last.endpoint

\* Reached: set_system_volume to 0.0 was rejected with no manager installed
\* while a stream was live and the default endpoint stood at 1.0.
NotInitialisedWitness ==
    /\ last.op = "set_system_volume" /\ ~last.manager.some
    /\ last.volume = VOL_ZERO /\ last.faults = {}
    /\ last.result = NotInitialised
    /\ endpoint[default_device].volume = VOL_ONE
    /\ \E dp \in Streams : mixer[dp].open

\* The final backslash-separated segment of a path: what follows its last
\* backslash, the whole path when it has none.
FinalSegment(path) ==
    LET at == {k \in 1..Len(path) : path[k] = "\\"}
        from == IF at = {} THEN 1 ELSE (CHOOSE k \in at : \A j \in at : j <= k) + 1
    IN  SubSeq(path, from, Len(path))

\* C19: resolve_process_name.  For pid 0 the name is "System"; for every
\* other pid it is a non-empty string: the final backslash-separated
\* segment of the executable path when the process was opened and the path
\* was queried with a length above zero, "Process {pid}" when a step failed.
NameResolved ==
    resolve.at = "returned"
    => IF resolve.process_id = 0
       THEN resolve.result = <<"S", "y", "s", "t", "e", "m">>
       ELSE /\ Len(resolve.result) > 0
            /\ IF resolve.opened = 1 /\ resolve.query_ok /\ Len(resolve.path) > 0
               THEN resolve.result = FinalSegment(resolve.path)
               ELSE resolve.result
                        = <<"P", "r", "o", "c", "e", "s", "s", " ">>
                              \o Decimal(resolve.process_id)

\* Reached: the call returned the file name of a path with two separators,
\* a name shorter than the path.
NameResolvedWitness ==
    /\ resolve.at = "returned" /\ resolve.process_id # 0
    /\ resolve.query_ok
    /\ Cardinality({k \in 1..Len(resolve.path) : resolve.path[k] = "\\"}) = 2
    /\ resolve.path[1] # "\\"
    /\ resolve.result = <<"b">>

\* C20: process-handle release.  On every return path of
\* resolve_process_name the call has closed as many process handles as it
\* opened, and between the calls of any sequence no handle is open.
HandlesReleased ==
    /\ resolve.at = "returned" => resolve.opened = resolve.closed
    /\ resolve.at \in {"ready", "returned"} => handles = 0

\* Reached: the call opened the process, the query reported a path of
\* length zero, and the call returned the fallback with the handle closed.
HandlesReleasedWitness ==
    /\ resolve.at = "returned"
    /\ resolve.opened = 1 /\ resolve.closed = 1 /\ handles = 0
    /\ resolve.query_ok /\ resolve.path = <<>>
    /\ resolve.result = Fallback(resolve.process_id)

\* C21: startup and teardown balance.  After any sequence of successful,
\* failed and repeated initialize calls, the COM initialisations of a thread
\* that are not yet undone number 1 if the installed manager was built on
\* that thread and 0 otherwise.
ApartmentsBalanced ==
    \A t \in Threads :
        com[t] = IF AUDIO_MANAGER.some /\ owner = t THEN 1 ELSE 0

\* The position of the first record with session_id id in the returned
\* list: the order in which line 342 inserted the ids of this pass.
FirstReturned(id) ==
    LET at == {k \in 1..Len(last.returned) : last.returned[k].session_id = id}
    IN  CHOOSE k \in at : \A j \in at : k <= j

\* id was inserted before other: it was cached before this enumeration and
\* other was not, or both are new and id came first in the pass.
InsertedBefore(id, other) ==
    LET old(x) == x \in DOMAIN last.manager.sessions
    IN  \/ old(id) /\ ~old(other)
        \/ ~old(id) /\ ~old(other) /\ FirstReturned(id) < FirstReturned(other)

\* C22: pruning policy.  When an enumeration leaves more entries in the
\* cache than the cap, the entries dropped are the oldest by insertion
\* order: no dropped entry was inserted after a retained one.
PrunedOldest ==
    (EnumerationRan /\ last.result = "Ok")
    => \A kept \in DOMAIN AUDIO_MANAGER.sessions :
          \A dropped \in ReturnedIds \ DOMAIN AUDIO_MANAGER.sessions :
              ~InsertedBefore(kept, dropped)

\* C23: session_id uniqueness.  Within the list one enumeration returns, no
\* two records share a session_id, also when records come from different
\* devices and the fallback "session_{index}" is synthesized; the cache
\* then has as many entries as the list has records.
UniqueSessionIds ==
    (EnumerationRan /\ last.result = "Ok")
    => /\ \A i \in 1..Len(last.returned), j \in 1..Len(last.returned) :
              i # j => last.returned[i].session_id # last.returned[j].session_id
       /\ Cardinality(DOMAIN AUDIO_MANAGER.sessions) = Len(last.returned)

\* The set command in `last` could reach the live stream dp of its target
\* process: the endpoints were listed and counted, and the device, the
\* session, its process id and its volume interface were accessible.
Reachable(dp) ==
    /\ dp \in TargetStreams
    /\ last.faults \cap EndpointCalls = {}
    /\ last.faults \cap {<<"Activate", dp[1], 0>>,
                         <<"GetSession", dp[1], dp[2]>>,
                         <<"GetProcessId", dp[1], dp[2]>>,
                         <<"ISimpleAudioVolume", dp[1], dp[2]>>} = {}

\* The set command in `last` failed before its device loop: the device
\* enumerator or the endpoint list could not be obtained.
EnumeratorFailed ==
    last.faults \cap {<<"CoCreateInstance", 0, 0>>, <<"EnumAudioEndpoints", 0, 0>>} # {}

\* C24: a set command on an unknown session_id fails with "Session not
\* found"; a set command on a cached session_id whose process has no
\* reachable live session fails with "No sessions found for process_id"
\* (with the error of the enumerator when that could not be obtained);
\* the two errors differ and neither is produced in the other situation.
DistinctSetErrors ==
    SetCommandRan
    => /\ "Session not found" # "No sessions found for process_id"
       /\ last.result = "Session not found" <=> ~TargetCached
       /\ last.result = "No sessions found for process_id"
              <=> /\ TargetCached
                  /\ ~EnumeratorFailed
                  /\ ~\E dp \in Streams : Reachable(dp)
       /\ (TargetCached /\ ~\E dp \in Streams : Reachable(dp))
              => last.result \notin {"Ok", "Session not found"}

\* Reached: a set command on a cached session_id failed with "No sessions
\* found for process_id" while a stream of the process was live, its
\* device being inaccessible.
DistinctSetErrorsWitness ==
    /\ TargetCached
    /\ last.result = "No sessions found for process_id"
    /\ TargetStreams # {}
    /\ \E dp \in TargetStreams : <<"Activate", dp[1], 0>> \in last.faults

\* The system endpoint commands.
SystemCommands ==
    {"get_system_volume", "get_system_mute", "set_system_volume", "set_system_mute"}

\* C25: system endpoint operations are cache-free.  They act on the device
\* that is the default at the moment of the call, also when the stored
\* device id is another one, and they leave the session cache, the stored
\* device id and the live volume and mute of every session unchanged.
SystemCommandsCacheFree ==
    (last.op \in SystemCommands /\ last.manager.some)
    => /\ AUDIO_MANAGER = last.manager
       /\ mixer = last.mixer
       /\ \A d \in Devices : d # default_device => endpoint[d] = last.endpoint[d]
       /\ last.result # "Ok" => endpoint = last.endpoint
       /\ last.result = "Ok"
          => /\ last.op = "get_system_volume"
                => /\ last.returned = <<last.endpoint[default_device].volume>>
                   /\ endpoint = last.endpoint
             /\ last.op = "get_system_mute"
                => /\ last.returned = <<last.endpoint[default_device].is_muted>>
                   /\ endpoint = last.endpoint
             /\ last.op = "set_system_volume"
                => endpoint[default_device]
                       = [last.endpoint[default_device]
                              EXCEPT !.volume = SpecClamp(last.volume)]
             /\ last.op = "set_system_mute"
                => endpoint[default_device]
                       = [last.endpoint[default_device] EXCEPT !.is_muted = last.muted]

\* Reached: after a switch of the default device that no poll has seen, a
\* set command changed the endpoint of the new default device and left the
\* endpoint of the stored device, while the cache held a session.
SystemCommandsWitness ==
    /\ last.op \in {"set_system_volume", "set_system_mute"}
    /\ last.manager.some /\ last.result = "Ok"
    /\ last.manager.current_device_id \in Devices
    /\ last.manager.current_device_id # default_device
    /\ endpoint[default_device] # last.endpoint[default_device]
    /\ endpoint[default_device] # endpoint[last.manager.current_device_id]
    /\ DOMAIN AUDIO_MANAGER.sessions # {}

\* The positions of the returned records of the live stream dp, whose
\* instance identifier was read.
RecordsOf(dp) ==
    {k \in 1..Len(last.returned) :
        last.returned[k].session_id \in {<<"inst", dp[1], dp[2]>>}}

\* The calls of the enumeration before line 327 succeeded for the live
\* stream dp: its device was activated, its session control, process id and
\* instance identifier were read.
ReadUpToVolume(dp) ==
    /\ ~DeviceSkipped(last.faults, dp[1])
    /\ ~SessionSkipped(last.faults, dp[1], dp[2])
    /\ ReadProcessId(last.faults, dp[1], dp[2]) # 0
    /\ ~Fails(last.faults, "GetSessionInstanceIdentifier", dp[1], dp[2])

\* C26: a live session whose volume interface is unavailable is skipped by
\* enumerate_sessions, being neither in the returned list nor in the cache
\* afterwards, while the other sessions of its device (those whose own
\* calls succeeded) are returned; a session whose volume read fails is
\* returned with volume 1.0, one whose mute read fails with is_muted false,
\* the value that was read being the session's.
VolumeInterfaceHandling ==
    (EnumerationRan /\ last.result = "Ok")
    => \A dp \in LiveStreams(last.mixer) :
          /\ <<"ISimpleAudioVolume", dp[1], dp[2]>> \in last.faults
             => /\ RecordsOf(dp) = {}
                /\ <<"inst", dp[1], dp[2]>> \notin DOMAIN AUDIO_MANAGER.sessions
                /\ \A other \in LiveStreams(last.mixer) :
                       (/\ other # dp
                        /\ other[1] = dp[1]
                        /\ ReadUpToVolume(other)
                        /\ <<"ISimpleAudioVolume", other[1], other[2]>> \notin last.faults)
                       => RecordsOf(other) # {}
          /\ (/\ ReadUpToVolume(dp)
              /\ <<"ISimpleAudioVolume", dp[1], dp[2]>> \notin last.faults)
             => /\ RecordsOf(dp) # {}
                /\ \A k \in RecordsOf(dp) :
                       /\ last.returned[k].volume =
                              IF <<"GetMasterVolume", dp[1], dp[2]>> \in last.faults
                              THEN VOL_ONE ELSE last.mixer[dp].volume
                       /\ last.returned[k].is_muted =
                              IF <<"GetMute", dp[1], dp[2]>> \in last.faults
                              THEN FALSE ELSE last.mixer[dp].is_muted

\* Reached: an enumeration skipped a live session without volume interface
\* that an earlier enumeration had cached, and returned the other session
\* of its device.
VolumeInterfaceWitness ==
    /\ EnumerationRan /\ last.result = "Ok"
    /\ \E dp \in LiveStreams(last.mixer) :
          /\ <<"ISimpleAudioVolume", dp[1], dp[2]>> \in last.faults
          /\ <<"inst", dp[1], dp[2]>> \in DOMAIN last.manager.sessions
          /\ <<"inst", dp[1], dp[2]>> \notin DOMAIN AUDIO_MANAGER.sessions
          /\ \E other \in LiveStreams(last.mixer) :
                 other # dp /\ other[1] = dp[1] /\ RecordsOf(other) # {}

\* Reached: a live stream at volume 0.0 was returned with volume 1.0
\* because its volume read failed.
DefaultVolumeReached ==
    /\ EnumerationRan /\ last.result = "Ok"
    /\ \E dp \in LiveStreams(last.mixer) :
          /\ <<"GetMasterVolume", dp[1], dp[2]>> \in last.faults
          /\ last.mixer[dp].volume = VOL_ZERO
          /\ \E k \in RecordsOf(dp) : last.returned[k].volume = VOL_ONE

\* Reached: a muted live stream was returned with is_muted false because
\* its mute read failed.
DefaultMuteReached ==
    /\ EnumerationRan /\ last.result = "Ok"
    /\ \E dp \in LiveStreams(last.mixer) :
          /\ <<"GetMute", dp[1], dp[2]>> \in last.faults
          /\ last.mixer[dp].is_muted
          /\ \E k \in RecordsOf(dp) : ~last.returned[k].is_muted

\* C27: calculate_window_width(n) is base_width for n = 0 and n = 1 and
\* base_width + (channel_width + channel_gap) * (n - 1) for every n >= 2,
\* with the measurements stored last; the result never wraps and the call
\* never aborts in unsigned arithmetic of the width of u32.
WidthFormula ==
    width # NoWidth
    => /\ ~width.aborted
       /\ width.value =
              IF width.session_count <= 1 THEN LAYOUT_MEASUREMENTS.base_width
              ELSE LAYOUT_MEASUREMENTS.base_width
                       + (LAYOUT_MEASUREMENTS.channel_width
                              + LAYOUT_MEASUREMENTS.channel_gap)
                             * (width.session_count - 1)

\* The formula of C27 holds of every call in which the increment, the
\* product and the sum fit in a u32.
WidthFormulaWhenInRange ==
    (/\ width # NoWidth
     /\ LAYOUT_MEASUREMENTS.base_width
            + (LAYOUT_MEASUREMENTS.channel_width + LAYOUT_MEASUREMENTS.channel_gap)
                  * Max(width.session_count, 1) <= U32Max)
    => WidthFormula

\* A set command that got past the cache lookup of lines 389-391 / 463-465.
SetPastLookup ==
    /\ last.op \in {"set_session_volume", "set_session_mute"}
    /\ last.manager.some
    /\ Found(last.manager, last.session_id)

\* The cache a set command leaves when it reaches lines 446-448 / 520-522:
\* the entry of the requested session_id holds the requested value, every
\* other field and entry is what it was.
CacheAfterSet ==
    IF last.op = "set_session_volume"
    THEN [last.manager.sessions EXCEPT ![last.session_id].volume = Clamp(last.volume)]
    ELSE [last.manager.sessions EXCEPT ![last.session_id].is_muted = last.muted]

\* C28: a set_session_volume or set_session_mute that found its session_id
\* in the cache and failed with "No sessions found for process_id" has
\* overwritten the cache entry of that session_id with the requested
\* (clamped) volume or mute; one that failed because the device enumerator
\* could not be created or the endpoints could not be listed left the
\* manager, and so the cache, unchanged.
CacheOnSetFailure ==
    SetPastLookup
    => /\ last.result = SetResult(0)
          => /\ AUDIO_MANAGER.sessions = CacheAfterSet
             /\ AUDIO_MANAGER = [last.manager EXCEPT !.sessions = CacheAfterSet]
       /\ last.result \in {"Failed to create device enumerator",
                            "Failed to enumerate audio endpoints"}
          => AUDIO_MANAGER = last.manager

\* A set command failed with "No sessions found for process_id" and the
\* value it wrote to the cache entry differs from the one the entry held.
CacheOnSetFailureWitness ==
    /\ SetPastLookup
    /\ last.result = SetResult(0)
    /\ AUDIO_MANAGER.sessions # last.manager.sessions
    /\ AUDIO_MANAGER.sessions = CacheAfterSet

\* A set command on a cached session_id failed on the enumerator or the
\* endpoint list while a live session of its process was open.
SetEnumeratorFailureReached ==
    /\ SetPastLookup
    /\ last.result \in {"Failed to create device enumerator",
                         "Failed to enumerate audio endpoints"}
    /\ \E dp \in LiveStreams(last.mixer) :
           dp[2] = last.manager.sessions[last.session_id].process_id

\* C29: every session_id in the list returned by a successful
\* enumerate_sessions is a key of the cache right after that call, whatever
\* the number of live sessions.
ReturnedAreCached ==
    (/\ last.op = "get_audio_sessions"
     /\ last.result = "Ok")
    => \A k \in 1..Len(last.returned) :
           Found(AUDIO_MANAGER, last.returned[k].session_id)

\* The same for the calls that return no more sessions than the cache cap.
ReturnedAreCachedUnderCap ==
    (/\ last.op = "get_audio_sessions"
     /\ last.result = "Ok"
     /\ Cardinality(LiveSessionIds(last.returned)) <= MAX_SESSION_CACHE_SIZE)
    => \A k \in 1..Len(last.returned) :
           Found(AUDIO_MANAGER, last.returned[k].session_id)

\* A call under the cap returned a session.
ReturnedUnderCapReached ==
    /\ last.op = "get_audio_sessions"
    /\ last.result = "Ok"
    /\ Len(last.returned) = MAX_SESSION_CACHE_SIZE

\* enumerate_sessions was called and returned an error.
EnumerateFailed ==
    /\ last.op = "get_audio_sessions"
    /\ last.manager.some
    /\ last.result # "Ok"

\* C30: when enumerate_sessions returns an error, the cache, the enumerate
\* call counter and the stored device id (and the logged counts) are what
\* they were before the call.
EnumerateErrorLeavesManager ==
    EnumerateFailed
    => /\ last.result \in {"Failed to create device enumerator",
                            "Failed to enumerate audio endpoints",
                            "Failed to get device count"}
       /\ AUDIO_MANAGER.sessions = last.manager.sessions
       /\ AUDIO_MANAGER.enumerate_calls = last.manager.enumerate_calls
       /\ AUDIO_MANAGER.current_device_id = last.manager.current_device_id
       /\ AUDIO_MANAGER = last.manager

\* enumerate_sessions failed on a manager that had a non-empty cache from
\* an earlier call, while the live sessions were no longer the cached ones.
EnumerateErrorWitness ==
    /\ EnumerateFailed
    /\ last.manager.sessions # EmptyMap
    /\ last.manager.enumerate_calls > 0
    /\ AUDIO_MANAGER.sessions = last.manager.sessions
    /\ \E dp \in LiveStreams(mixer) :
           \A id \in DOMAIN AUDIO_MANAGER.sessions :
               AUDIO_MANAGER.sessions[id].process_id # dp[2]

\* The poll in `last` failed to resolve the default device.
PollFailed == PollRan /\ ~PollSucceeded

\* C31: a check_device_changed that fails to resolve the default device
\* returns one of the errors of get_default_device_id and leaves the stored
\* device id, and the whole manager, as it was; so the poll that next
\* resolves the default device still returns true, and stores the new id,
\* for a switch that a failed poll had left unseen; no poll, failed or not,
\* changes the session cache.
FailedPollKeepsDeviceId ==
    /\ PollFailed
       => /\ last.result \in {"Failed to create device enumerator",
                               "Failed to get default audio endpoint",
                               "Failed to get device ID",
                               "Failed to convert device ID"}
          /\ AUDIO_MANAGER.current_device_id = last.manager.current_device_id
          /\ AUDIO_MANAGER = last.manager
    /\ (/\ PollSucceeded
        /\ failed_poll.seen.some
        /\ default_device # last.manager.current_device_id)
       => /\ last.result = "true"
          /\ AUDIO_MANAGER.current_device_id = default_device
    /\ PollRan => AUDIO_MANAGER.sessions = last.manager.sessions

\* Reached: the default device switched once, a poll failed, and the next
\* poll that resolved the device returned true and stored the new id, the
\* cache holding a session all along.
FailedPollWitness ==
    /\ PollSucceeded
    /\ failed_poll.seen.some
    /\ failed_poll.seen.value = 1
    /\ last.switches = 1
    /\ last.manager.current_device_id # EmptyDeviceId
    /\ last.result = "true"
    /\ AUDIO_MANAGER.current_device_id = default_device
    /\ AUDIO_MANAGER.sessions # EmptyMap

\* Reached: a poll failed on a manager with a stored id and a cached session
\* while a device switch was unseen.
FailedPollReached ==
    /\ PollFailed
    /\ last.switches = 1
    /\ last.manager.current_device_id # EmptyDeviceId
    /\ AUDIO_MANAGER.sessions # EmptyMap

ManagerSurvivesCleanup ==
    /\ CleanupRan => AUDIO_MANAGER.some /\ AUDIO_MANAGER.sessions = EmptyMap
    /\ (last # Idle /\ last.manager.some) => AUDIO_MANAGER.some
    /\ (last.op \in GuardedCommands /\ last.manager.some)
       => last.result # NotInitialised
    /\ (last # Idle /\ last.manager.some /\ Cleaned(last.manager) /\ last.faults = {})
       => /\ last.op = "get_audio_sessions" => last.result = "Ok"
          /\ last.op = "check_default_device_changed" => last.result = "true"
          /\ last.op \in SystemCommands => last.result = "Ok"
    /\ (SetCommandRan /\ last.manager.sessions = EmptyMap)
       => /\ last.result = SessionNotFound
          /\ AUDIO_MANAGER = last.manager
          /\ mixer = last.mixer

\* Reached: on the manager a cleanup left, a set command for the session of
\* a live stream failed with "Session not found".
SetAfterCleanupWitness ==
    /\ SetCommandRan
    /\ Cleaned(last.manager)
    /\ \E dp \in LiveStreams(mixer) : last.session_id = <<"inst", dp[1], dp[2]>>
    /\ last.result = SessionNotFound
    /\ AUDIO_MANAGER.some

\* Reached: on the manager a cleanup left, an enumeration returned the live
\* sessions.
EnumerateAfterCleanupReached ==
    /\ EnumerationRan
    /\ Cleaned(last.manager)
    /\ last.result = "Ok"
    /\ last.returned # <<>>
    /\ AUDIO_MANAGER.sessions # EmptyMap

\* Reached: on the manager a cleanup left, a system endpoint operation
\* succeeded.
SystemAfterCleanupReached ==
    /\ last.op \in SystemCommands
    /\ last.manager.some
    /\ Cleaned(last.manager)
    /\ last.result = "Ok"

\* The step is a run of init_audio_manager.
InitStep == last = Idle /\ last'.op = "init_audio_manager"

\* A manager as AudioManager::new builds it at this moment.
FreshManager == Manager(EmptyMap, default_device, 0, NoCounts)

\* What a run of init_audio_manager does.
InitReplacesOrKeeps ==
    InitStep
    => IF last'.result = "Audio manager initialised successfully"
       THEN /\ AUDIO_MANAGER' = FreshManager
            /\ AUDIO_MANAGER.some => com' = com
            /\ ~AUDIO_MANAGER.some
               => \E t \in Threads : com' = [com EXCEPT ![t] = @ + 1]
       ELSE /\ AUDIO_MANAGER' = AUDIO_MANAGER
            /\ last'.result \in {"Failed to initialize COM",
                                  "Failed to create device enumerator",
                                  "Failed to get default audio endpoint",
                                  "Failed to get device ID",
                                  "Failed to convert device ID"}

\* C34: a successful initialize installs a fresh manager (empty cache, call
\* counter 0, no logged counts, the device id captured at that moment) in
\* place of the one installed before, which is torn down: its Drop undoes
\* one COM initialisation, so that the count of the calling thread is what
\* it was; a failed initialize leaves AUDIO_MANAGER as it was, the installed
\* manager with its cache and its stored device id, or none.
Reinitialisation == [][InitReplacesOrKeeps]_vars

\* Reached: a successful initialize replaced a manager that had a cached
\* session, had counted an enumeration and had stored another device id.
ReinitialisationWitness ==
    /\ last.op = "init_audio_manager"
    /\ last.result = "Audio manager initialised successfully"
    /\ last.manager.some
    /\ last.manager.sessions # EmptyMap
    /\ last.manager.enumerate_calls > 0
    /\ last.manager.current_device_id # default_device
    /\ AUDIO_MANAGER = FreshManager

\* Reached: a failed initialize left the installed manager with its cached
\* session.
FailedReinitialisationReached ==
    /\ last.op = "init_audio_manager"
    /\ last.result # "Audio manager initialised successfully"
    /\ last.manager.some
    /\ last.manager.sessions # EmptyMap
    /\ AUDIO_MANAGER = last.manager

\* Reached: a failed initialize with no manager installed left none.
FailedFirstInitialisationReached ==
    /\ last.op = "init_audio_manager"
    /\ last.result # "Audio manager initialised successfully"
    /\ ~last.manager.some
    /\ AUDIO_MANAGER = None

\* The session ids observed in the pass.
PassObserved == LiveSessionIds(pass.list)

PrunedJustAboveCapReached ==
    /\ pass # NoPass
    /\ Cardinality(PassObserved) = MAX_SESSION_CACHE_SIZE + 1
    /\ Cardinality(DOMAIN pass.cache) = MAX_SESSION_CACHE_SIZE \div 2

\* A pass that observes no more sessions than the cap keeps them all.
NotPrunedUnderCap ==
    (pass # NoPass /\ Cardinality(PassObserved) <= MAX_SESSION_CACHE_SIZE)
    => DOMAIN pass.cache = PassObserved

\* Thread t holds the lock exactly from its Acquire to the return of its
\* command.
GuardHeldInCommand ==
    \A t \in Threads : lock = t <=> pc[t].at \in {"locked", "retain"}

\* Some thread can take a step, and a thread in a command that does not
\* wait for the lock can take its next step.
NoThreadStuck ==
    /\ \E t \in Threads :
           \/ ENABLED ThreadNew(t)
           \/ ENABLED Acquire(t)
           \/ ENABLED LockedStep(t)
           \/ \E op \in ThreadOps : ENABLED Call(t, op)
    /\ \A t \in Threads :
           /\ pc[t].at = "new" => ENABLED ThreadNew(t)
           /\ pc[t].at \in {"locked", "retain"} => ENABLED LockedStep(t)
           /\ (pc[t].at = "lock" /\ lock = Unlocked) => ENABLED Acquire(t)

ErrorPathUnderLockReached ==
    \E t, u \in Threads :
        /\ pc[t].at = "lock"
        /\ lock = u
        /\ Locked(u, "set_session_volume")
        /\ ~AUDIO_MANAGER.some

\* C37: the fan-out of a set command is driven by the live mixer, not by the
\* cache.  When no call fails, a set command on a cached session_id of
\* process P gives the new value to every live session of P, cached or not;
\* and as long as some session of P is live it succeeds and writes the new
\* value to the cache entry of the requested session_id, whether or not the
\* stream of that session_id is still open.
FanOutFollowsMixer ==
    (TargetCached /\ last.faults = {})
    => /\ \A dp \in TargetStreams : HasNewValue(dp)
       /\ TargetStreams # {}
          => /\ last.result = "Ok"
             /\ AUDIO_MANAGER.sessions = CacheAfterSet
       /\ TargetStreams = {} => last.result = SetResult(0)

\* Reached: a set command on the session_id of a stream that had closed
\* succeeded, changed the value of a stream of the same process that opened
\* after the last enumeration and has no cache entry, and changed the cache
\* entry of the requested session_id.
FanOutFollowsMixerWitness ==
    /\ TargetCached /\ last.faults = {} /\ last.result = "Ok"
    /\ \E dp \in Streams :
           /\ last.session_id = <<"inst", dp[1], dp[2]>>
           /\ ~last.mixer[dp].open
    /\ \E dp \in TargetStreams :
           /\ <<"inst", dp[1], dp[2]>> \notin DOMAIN last.manager.sessions
           /\ mixer[dp] # last.mixer[dp]
           /\ HasNewValue(dp)
    /\ AUDIO_MANAGER.sessions # last.manager.sessions
    /\ AUDIO_MANAGER.sessions = CacheAfterSet

\* The ids of the devices of the list of manager mgr.
ListedIds(mgr) == {mgr.devices[k].id : k \in 1..Len(mgr.devices)}

\* C38: after any sequence of enumerate_devices, read_all_axes and cleanup,
\* failed enumerations included, the axis cache and the button cache have
\* the same key set and every key is the id of a device of the current
\* device list.
InputCachesWithinDevices ==
    INPUT_MANAGER.some
    => /\ DOMAIN INPUT_MANAGER.axis_cache = DOMAIN INPUT_MANAGER.button_cache
       /\ DOMAIN INPUT_MANAGER.axis_cache \subseteq ListedIds(INPUT_MANAGER)

\* The two caches have the same key set.
InputCachesAgree ==
    INPUT_MANAGER.some
    => DOMAIN INPUT_MANAGER.axis_cache = DOMAIN INPUT_MANAGER.button_cache

\* The keys of the caches are listed devices, except after an enumeration
\* that failed and until the next enumeration or cleanup.
InputCachesWithinDevicesUnlessFailed ==
    (INPUT_MANAGER.some /\ INPUT_MANAGER.devices # <<>>)
    => DOMAIN INPUT_MANAGER.axis_cache \subseteq ListedIds(INPUT_MANAGER)

\* A get_all_axis_values call that reached read_all_axes is in `input`.
AxesRead == input.op = "get_all_axis_values" /\ input.manager.some

\* The listed devices whose position read failed in the call in `input`.
FailedReads ==
    {id \in ListedIds(input.manager) :
        ~input.joysticks[id].attached \/ id \in input.faults}

\* The records of device id in the returned vector.
ReturnedFor(id) ==
    {k \in 1..Len(input.returned) : input.returned[k].device_handle = id}

\* C39: read_all_axes never fails because of a failing device; a listed
\* device whose position read fails is returned once, with the axes and
\* buttons of its last successful read since the most recent
\* enumerate_devices, and is left out when there was no such read.
ReadFallsBackToCache ==
    AxesRead
    => /\ input.result = "Ok"
       /\ \A id \in FailedReads :
             IF input.reads[id].some
             THEN \E k \in 1..Len(input.returned) :
                     /\ ReturnedFor(id) = {k}
                     /\ input.returned[k].axes = input.reads[id].axes
                     /\ input.returned[k].buttons = input.reads[id].buttons
             ELSE ReturnedFor(id) = {}

\* A joystick that was moved after its last successful read fails to be
\* read and is returned from the cache.
ReadFallsBackToCacheWitness ==
    /\ AxesRead
    /\ \E id \in FailedReads :
          /\ input.reads[id].some
          /\ input.joysticks[id].attached
          /\ input.reads[id].axes # AxesOf(id)
          /\ ReturnedFor(id) # {}

\* A listed joystick with no successful read since the most recent
\* enumeration fails to be read and is left out, while another listed
\* joystick is read and returned.
FailedReadOmittedReached ==
    /\ AxesRead
    /\ \E id \in FailedReads : ~input.reads[id].some /\ ReturnedFor(id) = {}
    /\ \E id \in ListedIds(input.manager) \ FailedReads : ReturnedFor(id) # {}

\* An unplugged joystick that is still listed is returned from the cache.
UnpluggedReadFromCacheReached ==
    /\ AxesRead
    /\ \E id \in FailedReads :
          ~input.joysticks[id].attached /\ ReturnedFor(id) # {}

====
